---- MODULE Spec2Model ----
(***************************************************************************)
(* A model of the alert bot's core: the Candle Store and Price Cache of    *)
(* indicators.py, the technical analyzer of professional_analyzer.py and   *)
(* the dispatch loop of tasks.py.                                          *)
(*                                                                         *)
(* Numbers: prices and volumes are integers; every ratio the code computes *)
(* in floating point (percent distances, RSI, means) is compared exactly   *)
(* by cross-multiplication.  Time is an integer number of seconds.         *)
(* Python's None is the empty tuple; an optional dict d is <<>> or <<d>>.  *)
(***************************************************************************)
EXTENDS Integers, Sequences, FiniteSets, TLC

VARIABLES
    CANDLES,        \* CandleStorage.candles: (pair, tf) -> list of candles
    appended,       \* ghost: per series, how many candles were ever appended
    held,           \* the list a caller got from get_candles and still holds
    PRICE_CACHE,    \* PriceCache.cache: dict pair -> (price, volume, cached_at)
    lastSet,        \* ghost: per pair, the arguments and time of the latest set
    lastCall,       \* the latest cache call: its pair, its result, external fetch or not
    now,            \* time.time()
    required_conditions,  \* ProfessionalAnalyzer.required_conditions
    analysis,       \* the latest analyze_pair call: its arguments and its result
    remembered,     \* ghost: an earlier analyze_pair call, kept for comparison
    helper,         \* the latest call of an analyzer helper: its arguments and its result
    helperPrev,     \* ghost: the _create_signal call before the latest one
    LAST_SIGNALS,   \* tasks.LAST_SIGNALS: dict pair -> time of the last dispatch
    pc,             \* signal_analyzer: where the loop stands
    current_time,   \* signal_analyzer: the cycle's current_time (tasks.py:123)
    todo,           \* signal_analyzer: the pairs of active_pairs still to visit
    users,          \* signal_analyzer: the subscribers still to be served
    signal,         \* signal_analyzer: the signal being dispatched, <<>> if none
    attempts,       \* send_message_safe: retries made for the subscriber being served
    signals_sent,   \* table signals_sent: the rows log_signal inserted
    dispatchLog,    \* ghost: per pair, one record per dispatch: cycle time, delivery times, outcomes
    DEFAULT_PAIRS,  \* config.DEFAULT_PAIRS: the list of default pairs
    cpc,            \* price_collector: where the task stands
    work,           \* price_collector: the requests of the backfill, or the pairs of the cycle, still to make
    ts,             \* price_collector: the cycle's ts (tasks.py:76)
    requests,       \* ghost: the history requests made so far and what each appended
    collected,      \* ghost: per pair, what the steady-state cycles did, one record per visit
    pauses,         \* ghost: how many exceptions the collector's loop has caught
    available,      \* DBPool._available: the queue of idle connections, oldest first
    initialized,    \* DBPool._initialized
    dbops,          \* per task, its database operation: not in one, waiting in acquire, or holding a connection
    dbLast          \* ghost: how the database operation that finished last ended

storeVars == <<CANDLES, appended, held>>
cacheVars == <<PRICE_CACHE, lastSet, lastCall>>
helperVars == <<helper, helperPrev>>
anVars == <<required_conditions, analysis, remembered, helperVars>>
loopVars == <<pc, current_time, todo, users, signal, attempts, signals_sent, dispatchLog>>
schedVars == <<LAST_SIGNALS, loopVars>>
collVars == <<DEFAULT_PAIRS, cpc, work, ts, requests, collected, pauses>>
poolVars == <<available, initialized, dbops, dbLast>>
vars == <<CANDLES, appended, held, PRICE_CACHE, lastSet, lastCall, now,
          required_conditions, analysis, remembered, helper, helperPrev, LAST_SIGNALS,
          pc, current_time, todo, users, signal, attempts, signals_sent, dispatchLog,
          DEFAULT_PAIRS, cpc, work, ts, requests, collected, pauses,
          available, initialized, dbops, dbLast>>

None == <<>>

Min(a, b) == IF a < b THEN a ELSE b
Max(a, b) == IF a > b THEN a ELSE b

(***************************************************************************)
(* Candle Store (indicators.py, class CandleStorage)                       *)
(***************************************************************************)
Capacity == 500

StorePairs == {"BTCUSDT"}
TFs == {"1h", "4h", "1d"}
StoreKeys == {<<"BTCUSDT", "1h">>, <<"BTCUSDT", "4h">>}

\* Appends allowed to a series of the store specification.
OverCapacity == 3
MaxSideAppends == 1
MaxAppends(k) == IF k = <<"BTCUSDT", "1h">> THEN Capacity + OverCapacity ELSE MaxSideAppends

\* The n-th candle appended to a series: a synthetic candle as the collector's
\* steady state builds it (tasks.py:81), time and price following n.
NthCandle(n) ==
    LET price == 100 + (n % 3)
    IN [t |-> n, o |-> price, h |-> price, l |-> price, c |-> price, v |-> 10]

AddCandleKeepFirst(series, candle) ==
    LET a == Append(series, candle)
    IN IF Len(a) > Capacity THEN SubSeq(a, 1, Capacity) ELSE a

\* CandleStorage.add_candle on the list of one series: append, keep the last 500.
AddCandle(series, candle) ==
    LET a == Append(series, candle)
    IN IF Len(a) > Capacity THEN SubSeq(a, Len(a) - Capacity + 1, Len(a)) ELSE a

NoRef == [key |-> <<>>, alias |-> FALSE, val |-> <<>>, atRead |-> <<>>]

\* What the holder of a list returned by get_candles sees after add_candle
\* on series k: list.append mutates the shared list object in place; the
\* slice taken on overflow is a new list, bound in the store only.
HeldAfterAdd(h, k, series, candle) ==
    IF h.key = k /\ h.alias
    THEN [h EXCEPT !.val = Append(series, candle),
                   !.alias = (Len(series) + 1 <= Capacity)]
    ELSE h

add_candle(k, candle) ==
    /\ CANDLES' = [CANDLES EXCEPT ![k] = AddCandle(CANDLES[k], candle)]
    /\ appended' = [appended EXCEPT ![k] = @ + 1]
    /\ held' = HeldAfterAdd(held, k, CANDLES[k], candle)

\* CandleStorage.get_candles: the stored list object itself, or a fresh
\* empty list when the series has no entry yet (dict.get default).
GetCandles(store, k) ==
    [key |-> k, alias |-> (Len(store[k]) > 0), val |-> store[k], atRead |-> store[k]]

get_candles(k) ==
    /\ held' = GetCandles(CANDLES, k)
    /\ UNCHANGED <<CANDLES, appended>>

drop_held ==
    /\ held # NoRef
    /\ held' = NoRef
    /\ UNCHANGED <<CANDLES, appended>>

StoreAppend ==
    \E k \in StoreKeys :
        /\ appended[k] < MaxAppends(k)
        /\ add_candle(k, NthCandle(appended[k] + 1))
        /\ UNCHANGED <<cacheVars, now, anVars, schedVars, collVars, poolVars>>

StoreRead ==
    \E k \in StoreKeys :
        /\ held = NoRef
        /\ get_candles(k)
        /\ UNCHANGED <<cacheVars, now, anVars, schedVars, collVars, poolVars>>

StoreDrop == drop_held /\ UNCHANGED <<cacheVars, now, anVars, schedVars, collVars, poolVars>>

(***************************************************************************)
(* Price Cache (indicators.py, class PriceCache and fetch_price)           *)
(***************************************************************************)
TTL == 30

CachePairs == {"BTCUSDT", "ETHUSDT"}
Prices == {65000, 65100}
Volumes == {1200}

MaxTime == 62
TickSteps == {5, 26}

NoCall == [op |-> "none", pair |-> "", ret |-> None, ext |-> FALSE]

PriceCacheGetInclusive(cache, pair, t) ==
    IF pair \in DOMAIN cache /\ t - cache[pair][3] <= TTL
    THEN <<cache[pair][1], cache[pair][2]>>
    ELSE None

\* PriceCache.get at time t
PriceCache_get(cache, pair, t) ==
    IF pair \in DOMAIN cache /\ t - cache[pair][3] < TTL
    THEN <<cache[pair][1], cache[pair][2]>>
    ELSE None

\* PriceCache.set at time t
PriceCache_set(cache, pair, price, volume, t) ==
    [p \in DOMAIN cache \cup {pair} |->
        IF p = pair THEN <<price, volume, t>> ELSE cache[p]]

ClearOldEarly(cache, t) ==
    [p \in {q \in DOMAIN cache : t - cache[q][3] < TTL - 5} |-> cache[p]]

\* PriceCache.clear_old at time t
PriceCache_clear_old(cache, t) ==
    [p \in {q \in DOMAIN cache : t - cache[q][3] < TTL} |-> cache[p]]

CacheGet ==
    \E pair \in CachePairs :
        /\ lastCall' = [op |-> "get", pair |-> pair,
                        ret |-> PriceCache_get(PRICE_CACHE, pair, now), ext |-> FALSE]
        /\ UNCHANGED <<PRICE_CACHE, lastSet, now, storeVars, anVars, schedVars, collVars, poolVars>>

CacheSet ==
    \E pair \in CachePairs, price \in Prices, volume \in Volumes :
        /\ PRICE_CACHE' = PriceCache_set(PRICE_CACHE, pair, price, volume, now)
        /\ lastSet' = [lastSet EXCEPT ![pair] = <<price, volume, now>>]
        /\ lastCall' = [op |-> "set", pair |-> pair, ret |-> None, ext |-> FALSE]
        /\ UNCHANGED <<now, storeVars, anVars, schedVars, collVars, poolVars>>

CacheClearOld ==
    /\ PRICE_CACHE' = PriceCache_clear_old(PRICE_CACHE, now)
    /\ lastCall' = [op |-> "clear_old", pair |-> "", ret |-> None, ext |-> FALSE]
    /\ UNCHANGED <<lastSet, now, storeVars, anVars, schedVars, collVars, poolVars>>

\* fetch_price: a hit returns the cached tuple; a miss calls the market-data
\* API, which answers after some latency with a ticker (cached, returned) or
\* fails (logged, None).  The clock is followed up to horizon.
FetchLatency == {0, 5}

FetchPriceAlways(cache, pair, t) == None

\* The cache lookup that opens fetch_price (indicators.py:50)
FetchPriceCached(cache, pair, t) == PriceCache_get(cache, pair, t)

fetch_price(pair, horizon) ==
    LET cached == FetchPriceCached(PRICE_CACHE, pair, now)
    IN IF cached # None
       THEN /\ lastCall' = [op |-> "fetch_price", pair |-> pair, ret |-> cached, ext |-> FALSE]
            /\ UNCHANGED <<PRICE_CACHE, lastSet, now>>
       ELSE \E d \in FetchLatency :
              /\ now + d <= horizon
              /\ now' = now + d
              /\ \/ \E price \in Prices, volume \in Volumes :
                      /\ PRICE_CACHE' = PriceCache_set(PRICE_CACHE, pair, price, volume, now + d)
                      /\ lastSet' = [lastSet EXCEPT ![pair] = <<price, volume, now + d>>]
                      /\ lastCall' = [op |-> "fetch_price", pair |-> pair,
                                      ret |-> <<price, volume>>, ext |-> TRUE]
                 \/ /\ lastCall' = [op |-> "fetch_price", pair |-> pair, ret |-> None, ext |-> TRUE]
                    /\ UNCHANGED <<PRICE_CACHE, lastSet>>

CacheFetchPrice == \E pair \in CachePairs : fetch_price(pair, MaxTime) /\ UNCHANGED <<storeVars, anVars, schedVars, collVars, poolVars>>

Tick ==
    \E d \in TickSteps :
        /\ now + d <= MaxTime
        /\ now' = now + d
        /\ lastCall' = NoCall
        /\ UNCHANGED <<PRICE_CACHE, lastSet, storeVars, anVars, schedVars, collVars, poolVars>>

(***************************************************************************)
(* Technical analyzer (professional_analyzer.py, class ProfessionalAnalyzer)*)
(*                                                                         *)
(* A candle is [t, o, h, l, c, v] with integer prices and volumes.  A      *)
(* number that need not be an integer (a mean, a percentage of a level) is *)
(* a fraction [n, d] with d > 0.  An operation that can raise returns      *)
(* [raised |-> TRUE] or [raised |-> FALSE, ...].                           *)
(***************************************************************************)
RECURSIVE Gcd(_, _)
Gcd(a, b) == IF b = 0 THEN a ELSE Gcd(b, a % b)

\* the fraction n / d in lowest terms (n >= 0, d > 0)
Rat(n, d) == LET g == Gcd(n, d) IN [n |-> n \div g, d |-> d \div g]
Abs(x) == IF x < 0 THEN -x ELSE x

RECURSIVE SumRange(_, _, _)
\* sum(xs[lo..hi]) of a sequence of integers, 1-based and inclusive
SumRange(xs, lo, hi) == IF lo > hi THEN 0 ELSE xs[hi] + SumRange(xs, lo, hi - 1)

Closes(candles) == [i \in 1..Len(candles) |-> candles[i].c]
Highs(candles) == [i \in 1..Len(candles) |-> candles[i].h]
Lows(candles) == [i \in 1..Len(candles) |-> candles[i].l]
VolumesOf(candles) == [i \in 1..Len(candles) |-> candles[i].v]

\* xs[-k:]
LastK(xs, k) == SubSeq(xs, Max(1, Len(xs) - k + 1), Len(xs))

\* _calculate_rsi with period 14: None, or 100 - 100 / (1 + rs), which is
\* 100 * gain / (gain + loss) over the last 14 differences.
RsiPeriod == 14
calculate_rsi(closes) ==
    IF Len(closes) < RsiPeriod + 1 THEN None
    ELSE LET n == Len(closes)
             gains == [i \in 1..RsiPeriod |->
                          Max(closes[n - RsiPeriod + i] - closes[n - RsiPeriod + i - 1], 0)]
             losses == [i \in 1..RsiPeriod |->
                          Max(closes[n - RsiPeriod + i - 1] - closes[n - RsiPeriod + i], 0)]
             gain == SumRange(gains, 1, RsiPeriod)
             loss == SumRange(losses, 1, RsiPeriod)
         IN IF loss = 0 THEN <<Rat(100, 1)>> ELSE <<Rat(100 * gain, gain + loss)>>

\* Python truth value of an optional float: None and 0.0 are false.
Truthy(optRat) == optRat # None /\ optRat[1].n # 0

\* _calculate_ema in fixed point (hundredths of the price unit):
\* ema = value * k + ema * (1 - k) with k = 2 / (period + 1).
EmaScale == 100
RECURSIVE EmaFrom(_, _, _, _)
EmaFrom(values, i, ema, period) ==
    IF i > Len(values) THEN ema
    ELSE EmaFrom(values, i + 1,
                 (2 * values[i] * EmaScale + ema * (period - 1)) \div (period + 1), period)

calculate_ema(values, period) ==
    IF Len(values) < period THEN None
    ELSE <<EmaFrom(values, 2, values[1] * EmaScale, period)>>

\* _determine_trend
determine_trend(candles) ==
    IF Len(candles) < 20 THEN "neutral"
    ELSE LET closes == Closes(candles)
             recent_highs == LastK(Highs(candles), 10)
             recent_lows == LastK(Lows(candles), 10)
             higher_highs == Cardinality({i \in 2..Len(recent_highs) :
                                            recent_highs[i] > recent_highs[i - 1]})
             lower_lows == Cardinality({i \in 2..Len(recent_lows) :
                                          recent_lows[i] < recent_lows[i - 1]})
             rsi == calculate_rsi(closes)
             ema_50 == calculate_ema(closes, 50)
             ema_100 == calculate_ema(closes, 100)
             last == closes[Len(closes)] * EmaScale
             both == ema_50 # None /\ ema_100 # None /\ ema_50[1] # 0 /\ ema_100[1] # 0
             bull == (IF higher_highs > 5 THEN 1 ELSE 0)
                     + (IF rsi # None /\ rsi[1].n > 50 * rsi[1].d THEN 1 ELSE 0)
                     + (IF both /\ last > ema_50[1] /\ last > ema_100[1] THEN 1 ELSE 0)
             bear == (IF lower_lows > 5 THEN 1 ELSE 0)
                     + (IF rsi # None /\ rsi[1].n < 50 * rsi[1].d THEN 1 ELSE 0)
                     + (IF both /\ last < ema_50[1] /\ last < ema_100[1] THEN 1 ELSE 0)
         IN IF rsi = None THEN "neutral"
            ELSE IF bull >= 2 THEN "bullish"
            ELSE IF bear >= 2 THEN "bearish"
            ELSE "neutral"

RECURSIVE Insert(_, _)
Insert(x, sorted) ==
    IF sorted = <<>> THEN <<x>>
    ELSE IF x <= Head(sorted) THEN <<x>> \o sorted
    ELSE <<Head(sorted)>> \o Insert(x, Tail(sorted))

RECURSIVE SortAsc(_)
\* list.sort() of a list of integers
SortAsc(xs) == IF xs = <<>> THEN <<>> ELSE Insert(Head(xs), SortAsc(Tail(xs)))

RECURSIVE GroupLevels(_, _, _)
\* the grouping loop of _filter_levels: rest is what is left of the sorted
\* list, group the current group; a level joins the group when it is within
\* 2% of the group's first member; each group becomes its mean.
GroupLevels(rest, group, grouped) ==
    IF rest = <<>> THEN Append(grouped, Rat(SumRange(group, 1, Len(group)), Len(group)))
    ELSE IF 50 * Abs(Head(rest) - group[1]) <= group[1]
         THEN GroupLevels(Tail(rest), Append(group, Head(rest)), grouped)
         ELSE GroupLevels(Tail(rest), <<Head(rest)>>,
                          Append(grouped, Rat(SumRange(group, 1, Len(group)), Len(group))))

\* _filter_levels: drops the levels farther than 10% from the price, sorts,
\* groups.  Raises ZeroDivisionError on a zero price or a zero first member
\* and IndexError (filtered[0]) when every level was dropped.
filter_levels(levels, current_price) ==
    IF levels = <<>> THEN [raised |-> FALSE, levels |-> <<>>]
    ELSE IF current_price = 0 THEN [raised |-> TRUE]
    ELSE LET IsNear(l) == 10 * Abs(l - current_price) <= current_price
             filtered == SortAsc(SelectSeq(levels, IsNear))
         IN IF filtered = <<>> THEN [raised |-> TRUE]
            ELSE IF filtered[1] = 0 THEN [raised |-> TRUE]
            ELSE [raised |-> FALSE,
                  levels |-> GroupLevels(Tail(filtered), <<filtered[1]>>, <<>>)]

\* volumes[j] > np.mean(volumes[max(0, j-5):j]); the mean of an empty slice
\* is nan and compares false.
VolumeAboveMean(volumes, j) ==
    LET lo == Max(1, j - 5)
    IN j > 1 /\ volumes[j] * (j - lo) > SumRange(volumes, lo, j - 1)

\* the bounce count of candidate i over the window range(max(0, i-30),
\* min(len, i+30)), candidate included; above is the set of indices whose
\* volume exceeds the mean of the five before
BounceCount(xs, above, i) ==
    Cardinality({j \in Max(1, i - 30)..Min(Len(xs), i + 29) :
                    j \in above /\ 50 * Abs(xs[j] - xs[i]) <= xs[i]})

RECURSIVE Candidates(_, _, _, _, _, _)
\* the candidate loop of _find_key_levels over range(20, len - 10), for the
\* lows (below = TRUE: kept when under the last close) or the highs
Candidates(xs, above, last_close, below, i, acc) ==
    IF i > Len(xs) - 10 THEN acc
    ELSE Candidates(xs, above, last_close, below, i + 1,
            IF /\ BounceCount(xs, above, i) >= 2
               /\ (IF below THEN xs[i] < last_close ELSE xs[i] > last_close)
            THEN Append(acc, xs[i]) ELSE acc)

\* _find_key_levels
find_key_levels(candles) ==
    IF Len(candles) < 50 THEN [raised |-> FALSE, supports |-> <<>>, resistances |-> <<>>]
    ELSE LET highs == Highs(candles)
             lows == Lows(candles)
             volumes == VolumesOf(candles)
             above == {j \in 1..Len(candles) : VolumeAboveMean(volumes, j)}
             last_close == candles[Len(candles)].c
             interior == 21..(Len(candles) - 10)
         IN IF \E i \in interior : lows[i] = 0 THEN [raised |-> TRUE]
            ELSE IF \E i \in interior : highs[i] = 0 THEN [raised |-> TRUE]
            ELSE LET s == filter_levels(Candidates(lows, above, last_close, TRUE, 21, <<>>),
                                        last_close)
                 IN IF s.raised THEN [raised |-> TRUE]
                    ELSE LET r == filter_levels(
                                     Candidates(highs, above, last_close, FALSE, 21, <<>>),
                                     last_close)
                         IN IF r.raised THEN [raised |-> TRUE]
                            ELSE [raised |-> FALSE, supports |-> s.levels,
                                  resistances |-> r.levels]

CheckVolumeDecreaseFlatCounts(candles, red) ==
    IF Len(candles) < 10 THEN FALSE
    ELSE LET IsColour(c) == IF red THEN c.c <= c.o ELSE c.c >= c.o
             coloured == SelectSeq(LastK(candles, 5), IsColour)
         IN IF Len(coloured) < 2 THEN FALSE
            ELSE coloured[Len(coloured)].v < coloured[1].v

\* _check_volume_decrease_on_red (red = TRUE) and _check_volume_decrease_on_green
check_volume_decrease(candles, red) ==
    IF Len(candles) < 10 THEN FALSE
    ELSE LET IsColour(c) == IF red THEN c.c < c.o ELSE c.c > c.o
             coloured == SelectSeq(LastK(candles, 5), IsColour)
         IN IF Len(coloured) < 2 THEN FALSE
            ELSE coloured[Len(coloured)].v < coloured[1].v

TakeProfitsFromLevel(side, current_price, level) ==
    IF side = "LONG"
    THEN <<Rat(level.n * 1025, level.d * 1000), Rat(level.n * 1060, level.d * 1000),
           Rat(level.n * 1110, level.d * 1000)>>
    ELSE <<Rat(level.n * 975, level.d * 1000), Rat(level.n * 940, level.d * 1000),
           Rat(level.n * 890, level.d * 1000)>>

\* _calculate_take_profits
calculate_take_profits(side, current_price, level) ==
    IF side = "LONG"
    THEN <<Rat(current_price * 1025, 1000), Rat(current_price * 1060, 1000),
           Rat(current_price * 1110, 1000)>>
    ELSE <<Rat(current_price * 975, 1000), Rat(current_price * 940, 1000),
           Rat(current_price * 890, 1000)>>

\* _get_position_size
get_position_size(conditions_count) ==
    IF conditions_count = 5 THEN "15-20%"
    ELSE IF conditions_count = 4 THEN "10-12%"
    ELSE IF conditions_count = 3 THEN "5-8%"
    ELSE "0%"

\* _format_logic: the sentence is a function of the side, the level printed
\* with two decimals (rounded here to the nearest hundredth, the price unit
\* being 1/100) and the three detail clauses.
format_logic(side, conditions, level) ==
    LET has(c) == \E i \in 1..Len(conditions) : conditions[i] = c
    IN [zone |-> side,
        level |-> (2 * level.n + level.d) \div (2 * level.d),
        rsi |-> has("rsi_from_oversold") \/ has("rsi_from_overbought"),
        volume |-> has("volume_decreasing_on_red") \/ has("volume_decreasing_on_green"),
        btc |-> has("btc_not_falling") \/ has("btc_not_pumping")]

(***************************************************************************)
(* Python floats: IEEE 754 binary64, round to nearest, ties to even.       *)
(* A natural number is a sequence of limbs, least significant first; a     *)
(* positive double is [m, e] with 2^52 <= m < 2^53 and value m * 2^e.      *)
(***************************************************************************)
Limb == 32768
LimbBits == 15
Precision == 53
\* the binary places kept when a fraction is divided out before rounding
DivisionShift == 90

RECURSIVE Pow2(_)
Pow2(k) == IF k = 0 THEN 1 ELSE 2 * Pow2(k - 1)

RECURSIVE Nat2Limbs(_)
Nat2Limbs(n) == IF n = 0 THEN <<>> ELSE <<n % Limb>> \o Nat2Limbs(n \div Limb)

RECURSIVE Trim(_)
\* without leading zero limbs
Trim(a) == IF a = <<>> THEN a
           ELSE IF a[Len(a)] = 0 THEN Trim(SubSeq(a, 1, Len(a) - 1)) ELSE a

RECURSIVE NatAdd(_, _, _)
NatAdd(a, b, carry) ==
    IF a = <<>> /\ b = <<>> THEN (IF carry = 0 THEN <<>> ELSE <<carry>>)
    ELSE LET x == (IF a = <<>> THEN 0 ELSE Head(a)) + (IF b = <<>> THEN 0 ELSE Head(b)) + carry
         IN <<x % Limb>> \o NatAdd(IF a = <<>> THEN a ELSE Tail(a),
                                   IF b = <<>> THEN b ELSE Tail(b), x \div Limb)

RECURSIVE NatMulLimb(_, _, _)
NatMulLimb(a, k, carry) ==
    IF a = <<>> THEN (IF carry = 0 THEN <<>> ELSE <<carry>>)
    ELSE LET x == Head(a) * k + carry
         IN <<x % Limb>> \o NatMulLimb(Tail(a), k, x \div Limb)

RECURSIVE NatMul(_, _)
NatMul(a, b) ==
    IF b = <<>> THEN <<>>
    ELSE Trim(NatAdd(NatMulLimb(a, Head(b), 0), <<0>> \o NatMul(a, Tail(b)), 0))

RECURSIVE NatDiv(_, _)
\* quotient and remainder of a by d, 0 < d < 2 * Limb
NatDiv(a, d) ==
    IF a = <<>> THEN [q |-> <<>>, r |-> 0]
    ELSE LET hi == NatDiv(Tail(a), d)
             x == hi.r * Limb + Head(a)
         IN [q |-> <<x \div d>> \o hi.q, r |-> x % d]

RECURSIVE NatLess(_, _)
NatLess(a, b) ==
    IF Len(a) # Len(b) THEN Len(a) < Len(b)
    ELSE IF a = <<>> THEN FALSE
    ELSE IF a[Len(a)] # b[Len(b)] THEN a[Len(a)] < b[Len(b)]
    ELSE NatLess(SubSeq(a, 1, Len(a) - 1), SubSeq(b, 1, Len(b) - 1))

RECURSIVE BitsOf(_)
BitsOf(x) == IF x = 0 THEN 0 ELSE 1 + BitsOf(x \div 2)

BitLength(a) == IF a = <<>> THEN 0 ELSE (Len(a) - 1) * LimbBits + BitsOf(a[Len(a)])

\* bit i of a, bit 0 the least significant
BitAt(a, i) == LET k == i \div LimbBits + 1
               IN IF k > Len(a) THEN 0 ELSE (a[k] \div Pow2(i % LimbBits)) % 2

\* some bit of a below bit s is set
AnyBitBelow(a, s) ==
    \/ \E k \in 1..Len(a) : k <= s \div LimbBits /\ a[k] # 0
    \/ s \div LimbBits + 1 <= Len(a) /\ a[s \div LimbBits + 1] % Pow2(s % LimbBits) # 0

\* a divided by 2^s, rounded down
ShiftRight(a, s) ==
    LET drop == s \div LimbBits
        r == s % LimbBits
        at(k) == IF k > Len(a) THEN 0 ELSE a[k]
    IN Trim([k \in 1..(IF Len(a) > drop THEN Len(a) - drop ELSE 0) |->
               at(k + drop) \div Pow2(r) + (at(k + drop + 1) % Pow2(r)) * Pow2(LimbBits - r)])

\* a times 2^s
ShiftLeft(a, s) ==
    LET zeros == [k \in 1..(s \div LimbBits) |-> 0]
    IN zeros \o Trim(NatMulLimb(a, Pow2(s % LimbBits), 0))

\* the double nearest to a * 2^e (plus a fraction of a unit if inexact),
\* ties to even
RoundToDouble(a, inexact, e) ==
    LET len == BitLength(a)
    IN IF len <= Precision
       THEN [m |-> ShiftLeft(a, Precision - len), e |-> e - (Precision - len)]
       ELSE LET s == len - Precision
                q == ShiftRight(a, s)
                half == BitAt(a, s - 1) = 1
                sticky == inexact \/ AnyBitBelow(a, s - 1)
                up == half /\ (sticky \/ BitAt(q, 0) = 1)
                q1 == IF up THEN NatAdd(q, <<1>>, 0) ELSE q
            IN IF BitLength(q1) > Precision
               THEN [m |-> ShiftRight(q1, 1), e |-> e + s + 1]
               ELSE [m |-> q1, e |-> e + s]

\* float(n / d) for a decimal written in the data or in the code
binary64(n, d) ==
    LET x == NatDiv(ShiftLeft(Nat2Limbs(n), DivisionShift), d)
    IN RoundToDouble(Trim(x.q), x.r # 0, -DivisionShift)

\* x * y in floats
FloatMul(x, y) == RoundToDouble(NatMul(x.m, y.m), FALSE, x.e + y.e)

\* x < y in floats
FloatLess(x, y) == x.e < y.e \/ (x.e = y.e /\ NatLess(x.m, y.m))

\* a price of the model, counted in hundredths, as the float the data holds
PriceScale == 100
FloatOf(x) == binary64(x.n, x.d * PriceScale)

\* entry_min and entry_max of _create_signal as the floats it computes
entry_zone_binary64(side, level) ==
    IF side = "LONG"
    THEN <<FloatMul(FloatOf(level), binary64(995, 1000)), FloatMul(FloatOf(level), binary64(1015, 1000))>>
    ELSE <<FloatMul(FloatOf(level), binary64(985, 1000)), FloatMul(FloatOf(level), binary64(1005, 1000))>>

SignalConfidenceUncapped(count) == IF count = 5 THEN count * 20 + 10 ELSE count * 20

\* the confidence score of _create_signal for len(conditions_met) = count
signal_confidence(count) == Min(IF count = 5 THEN count * 20 + 10 ELSE count * 20, 100)

\* _create_signal
create_signal(side, pair, current_price, level, conditions_met) ==
    LET count == Len(conditions_met)
        confidence == signal_confidence(count)
        tp == calculate_take_profits(side, current_price, level)
    IN [side |-> side,
        pair |-> pair,
        entry_zone |-> IF side = "LONG"
                       THEN <<Rat(level.n * 995, level.d * 1000), Rat(level.n * 1015, level.d * 1000)>>
                       ELSE <<Rat(level.n * 985, level.d * 1000), Rat(level.n * 1005, level.d * 1000)>>,
        stop_loss |-> IF side = "LONG"
                      THEN Rat(level.n * 985, level.d * 1000)
                      ELSE Rat(level.n * 1015, level.d * 1000),
        take_profit_1 |-> tp[1],
        take_profit_2 |-> tp[2],
        take_profit_3 |-> tp[3],
        confidence |-> confidence,
        position_size |-> get_position_size(count),
        logic |-> format_logic(side, conditions_met, level),
        current_price |-> current_price,
        level |-> level]

\* self.required_conditions as __init__ sets it
RequiredConditions ==
    [LONG |-> <<"price_at_support", "support_level_works", "rsi_from_oversold",
                "volume_decreasing_on_red", "btc_not_falling">>,
     SHORT |-> <<"price_at_resistance", "resistance_level_works", "rsi_from_overbought",
                 "volume_decreasing_on_green", "btc_not_pumping">>]

SetOf(xs) == {xs[i] : i \in 1..Len(xs)}

RECURSIVE BestLevel(_, _, _, _, _)
\* the search loops of _analyze_long (long = TRUE: the highest support under
\* the price and within 1.5% of it) and _analyze_short (the lowest
\* resistance over the price and within 1.5%); best is None or <<level>>
BestLevel(levels, current_price, long, i, best) ==
    IF i > Len(levels) THEN best
    ELSE LET lv == levels[i]
             side_ok == IF long THEN lv.n < current_price * lv.d
                                ELSE lv.n > current_price * lv.d
             near == 1000 * Abs(current_price * lv.d - lv.n) <= 15 * current_price * lv.d
             better == \/ best = None
                       \/ IF long THEN lv.n * best[1].d > best[1].n * lv.d
                                  ELSE lv.n * best[1].d < best[1].n * lv.d
         IN BestLevel(levels, current_price, long, i + 1,
                      IF side_ok /\ near /\ better THEN <<lv>> ELSE best)

\* rsi_1h within [lo, hi]
RsiBetween(r, lo, hi) == lo * r.d <= r.n /\ r.n <= hi * r.d

RsiFromOversoldBelow4h(rsi_1h, rsi_4h) ==
    /\ Truthy(rsi_1h) /\ Truthy(rsi_4h)
    /\ RsiBetween(rsi_1h[1], 30, 45)
    /\ rsi_1h[1].n * rsi_4h[1].d < rsi_4h[1].n * rsi_1h[1].d

\* the momentum test of _analyze_long:
\* rsi_1h and rsi_4h and 30 <= rsi_1h <= 45 and rsi_1h > rsi_4h
rsi_from_oversold(rsi_1h, rsi_4h) ==
    /\ Truthy(rsi_1h) /\ Truthy(rsi_4h)
    /\ RsiBetween(rsi_1h[1], 30, 45)
    /\ rsi_1h[1].n * rsi_4h[1].d > rsi_4h[1].n * rsi_1h[1].d

RsiFromOverboughtAnyValue(rsi_1h, rsi_4h) == Truthy(rsi_1h) /\ Truthy(rsi_4h)

\* the momentum test of _analyze_short:
\* rsi_1h and rsi_4h and 55 <= rsi_1h <= 70 and rsi_1h < rsi_4h
rsi_from_overbought(rsi_1h, rsi_4h) ==
    /\ Truthy(rsi_1h) /\ Truthy(rsi_4h)
    /\ RsiBetween(rsi_1h[1], 55, 70)
    /\ rsi_1h[1].n * rsi_4h[1].d < rsi_4h[1].n * rsi_1h[1].d

AnyFourConditions(conditions_met, required) ==
    Cardinality(SetOf(conditions_met) \cap SetOf(required)) >= 4

\* set(conditions_met) == set(self.required_conditions[side])
all_conditions_met(conditions_met, required) == SetOf(conditions_met) = SetOf(required)

\* _analyze_long; required is self.required_conditions
analyze_long(required, pair, candles_1h, candles_4h, trend_4h, trend_1d, supports) ==
    LET current_price == candles_1h[Len(candles_1h)].c
        best == BestLevel(supports, current_price, TRUE, 1, None)
    IN IF best = None \/ best[1].n = 0 THEN None
       ELSE LET best_support == best[1]
                rsi_1h == calculate_rsi(Closes(candles_1h))
                rsi_4h == calculate_rsi(Closes(candles_4h))
                c1 == IF 1000 * Abs(current_price * best_support.d - best_support.n)
                            <= 15 * best_support.n
                      THEN <<"price_at_support">> ELSE <<>>
                c3 == IF rsi_from_oversold(rsi_1h, rsi_4h)
                      THEN <<"rsi_from_oversold">> ELSE <<>>
                c4 == IF check_volume_decrease(candles_1h, TRUE)
                      THEN <<"volume_decreasing_on_red">> ELSE <<>>
                conditions_met == c1 \o <<"support_level_works">> \o c3 \o c4
                                     \o <<"btc_not_falling">>
            IN IF all_conditions_met(conditions_met, required.LONG)
               THEN <<create_signal("LONG", pair, current_price, best_support, conditions_met)>>
               ELSE None

\* _analyze_short
analyze_short(required, pair, candles_1h, candles_4h, trend_4h, trend_1d, resistances) ==
    LET current_price == candles_1h[Len(candles_1h)].c
        best == IF current_price = 0 THEN None
                ELSE BestLevel(resistances, current_price, FALSE, 1, None)
    IN IF best = None \/ best[1].n = 0 THEN None
       ELSE LET best_resistance == best[1]
                rsi_1h == calculate_rsi(Closes(candles_1h))
                rsi_4h == calculate_rsi(Closes(candles_4h))
                c1 == IF 1000 * Abs(current_price * best_resistance.d - best_resistance.n)
                            <= 15 * best_resistance.n
                      THEN <<"price_at_resistance">> ELSE <<>>
                c3 == IF rsi_from_overbought(rsi_1h, rsi_4h)
                      THEN <<"rsi_from_overbought">> ELSE <<>>
                c4 == IF check_volume_decrease(candles_1h, FALSE)
                      THEN <<"volume_decreasing_on_green">> ELSE <<>>
                conditions_met == c1 \o <<"resistance_level_works">> \o c3 \o c4
                                     \o <<"btc_not_pumping">>
            IN IF all_conditions_met(conditions_met, required.SHORT)
               THEN <<create_signal("SHORT", pair, current_price, best_resistance, conditions_met)>>
               ELSE None

MinCandles1h == 50
MinCandles4h == 50
MinCandles1d == 30
MinConfidence == 80

Trends == {"bullish", "bearish", "neutral"}

AnalyzeWithTrendsGated(required, pair, candles_1h, candles_4h, candles_1d, trend_4h, trend_1d) ==
    LET levels == find_key_levels(candles_4h)
    IN IF levels.raised THEN None
       ELSE LET long_signal == IF trend_4h # "bullish" THEN None
                               ELSE analyze_long(required, pair, candles_1h, candles_4h,
                                                 trend_4h, trend_1d, levels.supports)
            IN IF long_signal # None /\ long_signal[1].confidence >= MinConfidence
               THEN long_signal
               ELSE LET short_signal == IF trend_4h # "bearish" THEN None
                                        ELSE analyze_short(required, pair, candles_1h,
                                                           candles_4h, trend_4h, trend_1d,
                                                           levels.resistances)
                    IN IF short_signal # None /\ short_signal[1].confidence >= MinConfidence
                       THEN short_signal
                       ELSE None

\* the body of analyze_pair from the key levels on (professional_analyzer.py:
\* 42-66), given the two values _determine_trend returned
AnalyzeWithTrends(required, pair, candles_1h, candles_4h, candles_1d, trend_4h, trend_1d) ==
    LET levels == find_key_levels(candles_4h)
    IN IF levels.raised THEN None
       ELSE LET long_signal == analyze_long(required, pair, candles_1h, candles_4h,
                                            trend_4h, trend_1d, levels.supports)
            IN IF long_signal # None /\ long_signal[1].confidence >= MinConfidence
               THEN long_signal
               ELSE LET short_signal == analyze_short(required, pair, candles_1h, candles_4h,
                                                      trend_4h, trend_1d, levels.resistances)
                    IN IF short_signal # None /\ short_signal[1].confidence >= MinConfidence
                       THEN short_signal
                       ELSE None

\* the body of analyze_pair after the data check; an exception raised in it
\* is caught by analyze_pair's except clause, which returns None
AnalyzeBody(required, pair, candles_1h, candles_4h, candles_1d) ==
    AnalyzeWithTrends(required, pair, candles_1h, candles_4h, candles_1d,
                      determine_trend(candles_4h), determine_trend(candles_1d))

AnalyzePairNeedsAllShort(required, pair, candles_1h, candles_4h, candles_1d) ==
    IF /\ Len(candles_1h) < MinCandles1h
       /\ Len(candles_4h) < MinCandles4h
       /\ Len(candles_1d) < MinCandles1d
    THEN None
    ELSE AnalyzeBody(required, pair, candles_1h, candles_4h, candles_1d)

\* ProfessionalAnalyzer.analyze_pair
analyze_pair(required, pair, candles_1h, candles_4h, candles_1d) ==
    IF \/ Len(candles_1h) < MinCandles1h
       \/ Len(candles_4h) < MinCandles4h
       \/ Len(candles_1d) < MinCandles1d
    THEN None
    ELSE AnalyzeBody(required, pair, candles_1h, candles_4h, candles_1d)

(***************************************************************************)
(* Candle series the analyzer is run on.  The price unit is 1/100.  A      *)
(* series is a flat run followed by a five-candle tail; each candle opens  *)
(* at the previous close, as klines do.                                    *)
(***************************************************************************)
\* a series of n candles from its closes: flat at base, then the tail;
\* the volumes of the last five candles are tailVolumes, the earlier ones
\* alternate 1000, 2000
MkSeries(n, step, base, tail, low, high, tailVolumes) ==
    LET close(i) == IF i <= n - Len(tail) THEN base ELSE tail[i - (n - Len(tail))]
    IN [i \in 1..n |->
          LET c == close(i)
              o == IF i = 1 THEN base ELSE close(i - 1)
          IN [t |-> i * step, o |-> o,
              h |-> Max(high, Max(o, c)), l |-> Min(low, Min(o, c)), c |-> c,
              v |-> IF i > n - Len(tailVolumes) THEN tailVolumes[i - (n - Len(tailVolumes))]
                    ELSE IF i % 2 = 0 THEN 2000 ELSE 1000]]

Shapes1h == {"long", "short", "flat"}
Shapes4h == {"long", "short", "far"}

\* 1h: "long" ends at 10100 with RSI 40 and red candles on falling volume,
\* "short" ends at 10400 with RSI 60 and green candles on falling volume,
\* "flat" never moves (RSI 100, no coloured candle); "example" ends at 10080
\* with RSI 38 and two red candles of volumes 120 then 80 among the last five
\* "edge" is "long" 50 higher: it ends at 10150, 1.5% over the low 10000
\* "both" is "long" with falling volume on its green candles as well
Series1h(shape, n) ==
    IF shape = "long"
    THEN MkSeries(n, 3600, 10200, <<10100, 10200, 10100, 10200, 10100>>, 10100, 10200,
                  <<3000, 1500, 2000, 1500, 1000>>)
    ELSE IF shape = "short"
    THEN MkSeries(n, 3600, 10300, <<10400, 10300, 10400, 10300, 10400>>, 10300, 10400,
                  <<3000, 1500, 2000, 1500, 1000>>)
    ELSE IF shape = "both"
    THEN MkSeries(n, 3600, 10200, <<10100, 10200, 10100, 10200, 10100>>, 10100, 10200,
                  <<3000, 2500, 2000, 1500, 1000>>)
    ELSE IF shape = "edge"
    THEN MkSeries(n, 3600, 10250, <<10150, 10250, 10150, 10250, 10150>>, 10150, 10250,
                  <<3000, 1500, 2000, 1500, 1000>>)
    ELSE IF shape = "example"
    THEN MkSeries(n, 3600, 10320,
                  <<10196, 10072, 10167, 10043, 10138, 10138, 10138, 10138, 10138,
                    10138, 10014, 10109, 9985, 10080>>, 10320, 10320,
                  <<1000, 120, 100, 80, 100>>)
    ELSE MkSeries(n, 3600, 10200, <<>>, 10200, 10200, <<>>)

\* 4h: lows at 10000 and highs at 10500 throughout, touched on above-average
\* volume; "long" ends at 10200 with RSI 25, "short" at 10300 with RSI 75;
\* "far" is "long" with the highs at 12000, more than 10% over the close;
\* "rsi44" ends at 10340 with RSI 44; "twice" is "long" with the low 10000
\* touched by the candles 26 and 30 only, both on above-average volume; the
\* other lows are 10400, or 10300 to 10100 in the tail, whose volumes are
\* not above average
Series4h(shape, n) ==
    IF shape = "long"
    THEN MkSeries(n, 14400, 10400, <<10400, 10300, 10200, 10100, 10200>>, 10000, 10500, <<>>)
    ELSE IF shape = "short"
    THEN MkSeries(n, 14400, 10100, <<10100, 10200, 10300, 10400, 10300>>, 10000, 10500, <<>>)
    ELSE IF shape = "rsi44"
    THEN MkSeries(n, 14400, 10400,
                  <<10330, 10385, 10315, 10370, 10300, 10355, 10285, 10340, 10340,
                    10340, 10340, 10340, 10340, 10340>>, 10000, 10500, <<>>)
    ELSE IF shape = "twice"
    THEN [i \in 1..n |->
            LET c == MkSeries(n, 14400, 10400, <<10400, 10300, 10200, 10100, 10200>>,
                              10400, 10500, <<1000, 1000, 1000, 1000, 1000>>)[i]
            IN IF i \in {26, 30} THEN [c EXCEPT !.l = 10000] ELSE c]
    ELSE MkSeries(n, 14400, 10400, <<10400, 10300, 10200, 10100, 10200>>, 10000, 12000, <<>>)

Series1d(n) == MkSeries(n, 86400, 10000, <<10100, 10200>>, 9900, 10600, <<>>)

(***************************************************************************)
(* Calls of analyze_pair on the series of the store, as signal_analyzer    *)
(* makes them (tasks.py:135-146), among writes to the other module state.  *)
(***************************************************************************)
AnPairs == {"BTCUSDT", "ETHUSDT"}
AnKeys == AnPairs \X TFs

NoAnalysis == [called |-> FALSE, pair |-> "", candles_1h |-> <<>>, candles_4h |-> <<>>,
               candles_1d |-> <<>>, result |-> None]

\* Appends the environment makes between calls
MaxAnAppends == 1

AnalyzePairOncePerPair(required, pair, candles_1h, candles_4h, candles_1d) ==
    IF analysis.called /\ analysis.pair = pair /\ analysis.result # None THEN None
    ELSE IF \/ Len(candles_1h) < MinCandles1h
            \/ Len(candles_4h) < MinCandles4h
            \/ Len(candles_1d) < MinCandles1d
    THEN None
    ELSE AnalyzeBody(required, pair, candles_1h, candles_4h, candles_1d)

\* the analyzer entry point as called with the lists read from the store
AnalyzerCall(required, pair, candles_1h, candles_4h, candles_1d) ==
    analyze_pair(required, pair, candles_1h, candles_4h, candles_1d)

AnalyzeCall ==
    \E pair \in AnPairs :
        LET candles_1h == GetCandles(CANDLES, <<pair, "1h">>).val
            candles_4h == GetCandles(CANDLES, <<pair, "4h">>).val
            candles_1d == GetCandles(CANDLES, <<pair, "1d">>).val
        IN /\ analysis' = [called |-> TRUE, pair |-> pair, candles_1h |-> candles_1h,
                           candles_4h |-> candles_4h, candles_1d |-> candles_1d,
                           result |-> AnalyzerCall(required_conditions, pair,
                                                   candles_1h, candles_4h, candles_1d)]
           /\ remembered' \in {remembered, analysis}
           /\ lastCall' = [op |-> "analyze_pair", pair |-> pair, ret |-> None, ext |-> FALSE]
           /\ UNCHANGED <<storeVars, PRICE_CACHE, lastSet, now, required_conditions,
                          helperVars, schedVars, collVars, poolVars>>

\* the collector's steady state appends a synthetic candle to a 1h series
AnAppend ==
    \E pair \in {"ETHUSDT"}, price \in {10400} :
        /\ appended[<<pair, "1h">>] < MaxAnAppends
        /\ add_candle(<<pair, "1h">>,
                      [t |-> now, o |-> price, h |-> price, l |-> price, c |-> price, v |-> 1200])
        /\ lastCall' = NoCall
        /\ UNCHANGED <<PRICE_CACHE, lastSet, now, anVars, schedVars, collVars, poolVars>>

\* the dispatch loop records a dispatch (tasks.py:166)
AnCooldown ==
    \E pair \in {"BTCUSDT"} :
        /\ pair \notin DOMAIN LAST_SIGNALS
        /\ LAST_SIGNALS' = [p \in DOMAIN LAST_SIGNALS \cup {pair} |->
                               IF p = pair THEN now ELSE LAST_SIGNALS[p]]
        /\ lastCall' = NoCall
        /\ UNCHANGED <<storeVars, PRICE_CACHE, lastSet, now, anVars, loopVars, collVars, poolVars>>

\* fetch_price caches a ticker (indicators.py:62)
AnCache ==
    /\ PRICE_CACHE = <<>>
    /\ PRICE_CACHE' = PriceCache_set(PRICE_CACHE, "BTCUSDT", 65000, 1200, now)
    /\ lastCall' = NoCall
    /\ UNCHANGED <<lastSet, storeVars, now, anVars, schedVars, collVars, poolVars>>

AnLengths1h == {MinCandles1h - 1, MinCandles1h}
AnLengths4h == {MinCandles4h - 1, MinCandles4h}
AnLengths1d == {MinCandles1d - 1, MinCandles1d}


(***************************************************************************)
(* Calls of the analyzer's helpers on arguments of their own: the          *)
(* confidence score, the prices of a signal, the momentum tests.           *)
(***************************************************************************)
Sides == {"LONG", "SHORT"}
Counts == 0..5
SigPrices == {1, 10080}
SigLevels == {Rat(10000, 1), Rat(20150, 2)}
\* RSI values: None (too few closes) or a number of [0, 100]
RsiValues == {None} \cup {<<Rat(r, 1)>> : r \in {0, 30, 38, 44, 45, 46, 52, 55, 62, 70, 100}}

NoHelper == [op |-> "none"]

\* the first count names of the side's required list (the list again beyond five)
ConditionsMet(side, count) ==
    [i \in 1..count |-> RequiredConditions[side][((i - 1) % 5) + 1]]

CreateSignalCall ==
    \E side \in Sides, count \in Counts, current_price \in SigPrices, level \in SigLevels :
        /\ helper' = [op |-> "create_signal", side |-> side, count |-> count,
                      current_price |-> current_price, level |-> level,
                      signal |-> create_signal(side, "BTCUSDT", current_price, level,
                                               ConditionsMet(side, count))]
        /\ helperPrev' = IF helper.op = "create_signal" THEN helper ELSE NoHelper
        /\ UNCHANGED <<storeVars, cacheVars, now, required_conditions, analysis, remembered,
                       schedVars, collVars, poolVars>>

MomentumCall ==
    \E rsi_1h \in RsiValues, rsi_4h \in RsiValues :
        /\ helper' = [op |-> "momentum", rsi_1h |-> rsi_1h, rsi_4h |-> rsi_4h,
                      long |-> rsi_from_oversold(rsi_1h, rsi_4h),
                      short |-> rsi_from_overbought(rsi_1h, rsi_4h)]
        /\ helperPrev' = NoHelper
        /\ UNCHANGED <<storeVars, cacheVars, now, required_conditions, analysis, remembered,
                       schedVars, collVars, poolVars>>

\* level lists handed to the two sides: no level or a support under the
\* prices of the 1h shapes; no level or a resistance within 1.5% over the
\* price 10100 or over the price 10400
SupportLists == {<<>>, <<Rat(10000, 1)>>}
ResistanceLists == {<<>>, <<Rat(10250, 1)>>, <<Rat(10500, 1)>>}
SideShapes1h == {"long", "short", "both"}
SideShapes4h == {"long", "short"}

\* _analyze_long and _analyze_short on the same candles, as analyze_pair
\* calls them (professional_analyzer.py:45, 56)
SidesCall ==
    \E s1 \in SideShapes1h, s4 \in SideShapes4h, supports \in SupportLists,
       resistances \in ResistanceLists :
        LET candles_1h == Series1h(s1, MinCandles1h)
            candles_4h == Series4h(s4, MinCandles4h)
            trend_4h == determine_trend(candles_4h)
            trend_1d == determine_trend(Series1d(MinCandles1d))
        IN /\ helper' = [op |-> "sides", shape_1h |-> s1, shape_4h |-> s4,
                         supports |-> supports, resistances |-> resistances,
                         long |-> analyze_long(required_conditions, "BTCUSDT", candles_1h,
                                               candles_4h, trend_4h, trend_1d, supports),
                         short |-> analyze_short(required_conditions, "BTCUSDT", candles_1h,
                                                 candles_4h, trend_4h, trend_1d, resistances)]
           /\ helperPrev' = NoHelper
           /\ UNCHANGED <<storeVars, cacheVars, now, required_conditions, analysis, remembered,
                          schedVars, collVars, poolVars>>

(***************************************************************************)
(* Dispatch loop (tasks.py, signal_analyzer and send_message_safe)         *)
(*                                                                         *)
(* config.py is not part of the sources: SIGNAL_COOLDOWN and               *)
(* MAX_SIGNALS_PER_DAY are configuration values, taken small.  The name    *)
(* crypto_micky_analyzer that tasks.py imports is defined nowhere in the   *)
(* sources; its analyze_pair(pair, 1h, 4h, 1d, btc_1h) is modelled from    *)
(* the specification: the analyzer's result on the first four arguments,   *)
(* or an unexpected fault.                                                 *)
(***************************************************************************)
SIGNAL_COOLDOWN == 120
MAX_SIGNALS_PER_DAY == 1
CycleSleep == 60
DaySeconds == 86400
SchedMin1h == 100

SchedPairs == {"BTCUSDT", "ETHUSDT"}
SchedKeys == SchedPairs \X TFs

\* get_pairs_with_users(): the rows (user_id, pair) of the paying users
Rows == <<[user_id |-> 1, pair |-> "BTCUSDT"], [user_id |-> 2, pair |-> "BTCUSDT"],
          [user_id |-> 1, pair |-> "ETHUSDT"]>>

\* Time up to which cycles are started, retries a RetryAfter may cause for
\* one subscriber, and the waits a RetryAfter asks for.
MaxSchedTime == 180
MaxRetries == 2
RetryTimeouts == {60}

\* The orders in which list(set(...)) may enumerate a set of pairs
Orders(S) ==
    {o \in [1..Cardinality(S) -> S] : \A i, j \in 1..Cardinality(S) : i # j => o[i] # o[j]}

ActivePairs == {Rows[i].pair : i \in 1..Len(Rows)}

\* users = [row["user_id"] for row in rows if row["pair"] == pair]
RECURSIVE UsersOf(_, _)
UsersOf(rows, pair) ==
    IF rows = <<>> THEN <<>>
    ELSE (IF Head(rows).pair = pair THEN <<Head(rows).user_id>> ELSE <<>>)
         \o UsersOf(Tail(rows), pair)

\* the cooldown test of tasks.py:128-133
InCooldown(last, pair, t) ==
    pair \in DOMAIN last /\ t - last[pair] < SIGNAL_COOLDOWN

RecordDispatchPruning(last, pair, t) ==
    [p \in {q \in DOMAIN last : t - last[q] < SIGNAL_COOLDOWN} \cup {pair} |->
        IF p = pair THEN t ELSE last[p]]

\* LAST_SIGNALS[pair] = current_time (tasks.py:166)
RecordDispatch(last, pair, t) ==
    [p \in DOMAIN last \cup {pair} |-> IF p = pair THEN t ELSE last[p]]

NotEnoughCandles1hOnly(candles_1h, candles_4h, candles_1d) == Len(candles_1h) < SchedMin1h

\* the data check of tasks.py:140
NotEnoughCandles(candles_1h, candles_4h, candles_1d) ==
    \/ Len(candles_1h) < SchedMin1h
    \/ Len(candles_4h) < MinCandles4h
    \/ Len(candles_1d) < MinCandles1d

\* crypto_micky_analyzer.analyze_pair: the outcomes of the call
EntryPoint(pair, candles_1h, candles_4h, candles_1d, btc_candles_1h) ==
    {[raised |-> TRUE, signal |-> None],
     [raised |-> FALSE,
      signal |-> analyze_pair(required_conditions, pair, candles_1h, candles_4h, candles_1d)]}

\* asyncio.sleep(60) that ends every cycle, abandoned or not (tasks.py:176)
EndCycle ==
    /\ now + CycleSleep <= MaxSchedTime
    /\ now' = now + CycleSleep
    /\ pc' = "cycle"
    /\ todo' = <<>>
    /\ users' = <<>>
    /\ signal' = None
    /\ attempts' = 0

\* the cycle opens: rows, active_pairs, current_time (tasks.py:111-123)
SchedBegin ==
    /\ pc = "cycle"
    /\ IF ActivePairs = {}
       THEN EndCycle /\ UNCHANGED current_time
       ELSE /\ \E order \in Orders(ActivePairs) : todo' = order
            /\ current_time' = now
            /\ pc' = "pairs"
            /\ UNCHANGED <<now, users, signal, attempts>>
    /\ UNCHANGED <<LAST_SIGNALS, signals_sent, dispatchLog, storeVars, cacheVars, anVars, collVars, poolVars>>

StoreAfterPassTrimmed(store, pairs) ==
    IF pairs = <<>> THEN store
    ELSE [store EXCEPT ![<<Head(pairs), "1h">>] = LastK(@, MinCandles1h)]

\* the store after one iteration over pairs: get_candles hands out the
\* stored lists (tasks.py:135-138) and analyze_pair and its helpers read
\* them by index, slice and comprehension (professional_analyzer.py:31-70);
\* nothing is written
StoreAfterPass(store, pairs) == store

\* the call as the sources have it: professional_analyzer.py binds the name
\* professional_analyzer only (line 440), and analyze_pair takes pair and
\* three candle lists (line 31), so that the call with btc_candles_1h as a
\* fifth argument raises TypeError before the body of analyze_pair runs
CallAsWritten(pair, candles_1h, candles_4h, candles_1d, btc_candles_1h) ==
    {[raised |-> TRUE, signal |-> None]}

\* one iteration of "for pair in active_pairs" up to the sends
\* (tasks.py:125-153), or the end of the loop and the sleep; the call at
\* tasks.py:144-146 is taken as the sources have it or, with described, goes
\* to the entry point the specification describes
SchedPairWith(described) ==
    /\ pc = "pairs"
    /\ IF todo = <<>>
       THEN EndCycle /\ UNCHANGED <<dispatchLog>>
       ELSE LET pair == Head(todo)
                candles_1h == GetCandles(CANDLES, <<pair, "1h">>).val
                candles_4h == GetCandles(CANDLES, <<pair, "4h">>).val
                candles_1d == GetCandles(CANDLES, <<pair, "1d">>).val
                btc_candles_1h == GetCandles(CANDLES, <<"BTCUSDT", "1h">>).val
            IN IF \/ InCooldown(LAST_SIGNALS, pair, current_time)
                  \/ NotEnoughCandles(candles_1h, candles_4h, candles_1d)
               THEN /\ todo' = Tail(todo)
                    /\ UNCHANGED <<pc, now, users, signal, attempts, dispatchLog>>
               ELSE \E out \in (IF described
                                THEN EntryPoint(pair, candles_1h, candles_4h, candles_1d,
                                                btc_candles_1h)
                                ELSE CallAsWritten(pair, candles_1h, candles_4h, candles_1d,
                                                   btc_candles_1h)) :
                      IF out.raised
                      THEN EndCycle /\ UNCHANGED <<dispatchLog>>
                      ELSE IF out.signal = None
                      THEN /\ todo' = Tail(todo)
                           /\ UNCHANGED <<pc, now, users, signal, attempts, dispatchLog>>
                      ELSE /\ pc' = "send"
                           /\ signal' = out.signal
                           /\ users' = UsersOf(Rows, pair)
                           /\ attempts' = 0
                           /\ dispatchLog' = [dispatchLog EXCEPT ![pair] =
                                  Append(@, [cycle |-> current_time, first |-> -1, last |-> -1,
                                             recorded |-> FALSE, outcomes |-> <<>>])]
                           /\ UNCHANGED <<todo, now>>
    /\ CANDLES' = StoreAfterPass(CANDLES, todo)
    /\ UNCHANGED <<LAST_SIGNALS, current_time, signals_sent, appended, held, cacheVars, anVars,
                   collVars, poolVars>>

\* the iteration with the analyzer entry point the specification describes
SchedPair == SchedPairWith(TRUE)

\* the iteration with the call as the sources have it
SchedPairAsWritten == SchedPairWith(FALSE)

\* the ghost record of the running dispatch takes note of a delivery at time t
NoteDelivery(log, pair, t) ==
    [log EXCEPT ![pair][Len(log[pair])] =
        [@ EXCEPT !.first = IF @ = -1 THEN t ELSE @, !.last = t]]

\* the ghost record of the running dispatch takes note of the outcome of
\* send_message_safe for a subscriber
NoteOutcome(log, pair, user_id, ok) ==
    [log EXCEPT ![pair][Len(log[pair])].outcomes = Append(@, [user_id |-> user_id, ok |-> ok])]

LogAlways(sent, rows, row) == Append(rows, row)

\* if await send_message_safe(...): await log_signal(...) (tasks.py:157-161,
\* database.py:224-234)
LogAfter(sent, rows, row) == IF sent THEN Append(rows, row) ELSE rows

RemainingAfterBreak(sent, us) == IF sent THEN Tail(us) ELSE <<>>

\* the subscribers left for the "for user_id in users" loop once
\* send_message_safe has returned sent for the first of us
RemainingAfter(sent, us) == Tail(us)

\* one pass of "for user_id in users" (tasks.py:156-163): a call of
\* bot.send_message for the next subscriber and what follows it, or, after
\* the last subscriber, the write of the cooldown map (tasks.py:166)
SchedSend ==
    /\ pc = "send"
    /\ LET pair == Head(todo)
       IN IF users = <<>>
          THEN /\ LAST_SIGNALS' = RecordDispatch(LAST_SIGNALS, pair, current_time)
               /\ todo' = Tail(todo)
               /\ pc' = "pairs"
               /\ signal' = None
               /\ dispatchLog' = [dispatchLog EXCEPT ![pair][Len(dispatchLog[pair])].recorded = TRUE]
               /\ UNCHANGED <<now, users, attempts, signals_sent>>
          ELSE LET user_id == Head(users)
                   row == [user_id |-> user_id, pair |-> pair, side |-> signal[1].side,
                           price |-> signal[1].current_price,
                           score |-> signal[1].confidence, sent_ts |-> now]
               IN \/ \* delivered; log_signal inserts the row
                     /\ signals_sent' = LogAfter(TRUE, signals_sent, row)
                     /\ dispatchLog' = NoteOutcome(NoteDelivery(dispatchLog, pair, now),
                                                   pair, user_id, TRUE)
                     /\ users' = RemainingAfter(TRUE, users)
                     /\ attempts' = 0
                     /\ UNCHANGED <<LAST_SIGNALS, pc, todo, signal, now>>
                  \/ \* delivered; log_signal raises, which ends the cycle
                     /\ dispatchLog' = NoteOutcome(NoteDelivery(dispatchLog, pair, now),
                                                   pair, user_id, TRUE)
                     /\ EndCycle
                     /\ UNCHANGED <<LAST_SIGNALS, signals_sent>>
                  \/ \* TelegramAPIError: send_message_safe returns False
                     /\ signals_sent' = LogAfter(FALSE, signals_sent, row)
                     /\ dispatchLog' = NoteOutcome(dispatchLog, pair, user_id, FALSE)
                     /\ users' = RemainingAfter(FALSE, users)
                     /\ attempts' = 0
                     /\ UNCHANGED <<LAST_SIGNALS, pc, todo, signal, now>>
                  \/ \* RetryAfter: sleep e.timeout, then send_message_safe again
                     \E timeout \in RetryTimeouts :
                        /\ attempts < MaxRetries
                        /\ now + timeout <= MaxSchedTime
                        /\ now' = now + timeout
                        /\ attempts' = attempts + 1
                        /\ UNCHANGED <<LAST_SIGNALS, pc, todo, users, signal, signals_sent,
                                       dispatchLog>>
    /\ UNCHANGED <<current_time, storeVars, cacheVars, anVars, collVars, poolVars>>

(***************************************************************************)
(* Market data collector (tasks.py, price_collector)                       *)
(*                                                                         *)
(* One action is one stretch of the coroutine between two awaits.  The     *)
(* clock counts whole seconds; a history request and the pause after it    *)
(* take one second together, a price request none.  CHECK_INTERVAL and     *)
(* DEFAULT_PAIRS are values of config.py, which is not part of the         *)
(* sources: the interval is taken shorter than the error pause, as the     *)
(* specification has it, and the default list ranges over                  *)
(* DefaultPairLists.                                                       *)
(***************************************************************************)
CHECK_INTERVAL == 25
ErrorPause == 60
HistoryLimit == 100
BackfillStep == 1

\* Time up to which the collector is followed, and history requests of a
\* run that may go unanswered (a failure or an empty list)
MaxCollectTime == 180
MaxUnanswered == 1

\* The time at which price_collector is started
CollectStart == 116

CollectPairs == {"BTCUSDT", "ETHUSDT"}
CollectKeys == CollectPairs \X TFs
DefaultPairLists == {<<>>, <<"ETHUSDT">>, <<"BTCUSDT", "ETHUSDT">>}

\* get_all_tracked_pairs(): the distinct pairs of user_pairs
TrackedPairs == ActivePairs

Timeframes == <<"1h", "4h", "1d">>

\* seconds covered by a kline of the interval tf
Period(tf) == IF tf = "1h" THEN 3600 ELSE IF tf = "4h" THEN 14400 ELSE 86400

\* for pair in pairs: for tf in ["1h", "4h", "1d"]: the requests in order
Units(pairs) ==
    [i \in 1..(3 * Len(pairs)) |-> <<pairs[((i - 1) \div 3) + 1], Timeframes[((i - 1) % 3) + 1]>>]

\* the open time of the kline that is running at time t
OpenTime(t, tf) == (t \div Period(tf)) * Period(tf)

\* prices and volumes of the last n klines of a pair
History(pair, tf, n) ==
    IF tf = "1h" THEN Series1h(IF pair = "BTCUSDT" THEN "long" ELSE "short", n)
    ELSE IF tf = "4h" THEN Series4h(IF pair = "BTCUSDT" THEN "long" ELSE "short", n)
    ELSE Series1d(n)

\* the candles fetch_candles_binance builds from the n klines the exchange
\* returns at time t: oldest first, 't' the open time in seconds
Klines(pair, tf, n, t) ==
    LET h == History(pair, tf, n)
    IN [i \in 1..n |-> [h[i] EXCEPT !.t = OpenTime(t, tf) - (n - i) * Period(tf)]]

\* klines the exchange holds of a pair: the shortest histories the dispatch
\* loop analyses (tasks.py:140)
Available(tf) == IF tf = "1h" THEN SchedMin1h ELSE IF tf = "4h" THEN MinCandles4h ELSE MinCandles1d

\* the number of klines in an answer to a request of limit klines: the
\* latest ones the exchange holds, or none
HistorySizes(tf, limit) == {0, Min(limit, Available(tf))}

\* fetch_candles_binance(pair, tf, limit) at time t: None after any failure,
\* else the list of candles, which is empty when the exchange returns no kline
fetch_candles_binance(pair, tf, limit, t) ==
    {None} \cup {Klines(pair, tf, n, t) : n \in HistorySizes(tf, limit)}

\* for candle in candles: CANDLES.add_candle(pair, tf, candle), on one
\* series: every call appends one candle and keeps the last 500, so the loop
\* appends them all, in order, and keeps the last 500
AddCandles(series, candles) ==
    LET a == series \o candles
    IN IF Len(a) > Capacity THEN SubSeq(a, Len(a) - Capacity + 1, Len(a)) ELSE a

\* the backfill loop of the default pairs is over: the loop of BTCUSDT
\* follows; that one is over: the steady state follows
NextPhase ==
    /\ cpc' = IF cpc = "backfill" THEN "btc" ELSE "steady"
    /\ work' = IF cpc = "backfill" THEN Units(<<"BTCUSDT">>) ELSE <<>>
    /\ UNCHANGED <<CANDLES, appended, requests, now>>

UnitsAfterAbort(failed, units) == IF failed THEN <<>> ELSE Tail(units)

\* the requests left once the first of units was made: a failure is logged
\* inside the loop body (tasks.py:53-54, indicators.py:100-102)
UnitsAfter(failed, units) == Tail(units)

Unanswered(reqs) == Cardinality({i \in 1..Len(reqs) : reqs[i].loaded = 0})

\* one history request and its appends (tasks.py:46-54, 58-66)
Request(pair, tf) ==
    \E candles \in fetch_candles_binance(pair, tf, HistoryLimit, now) :
        LET k == <<pair, tf>>
            loaded == IF candles = None THEN <<>> ELSE candles
        IN /\ loaded = <<>> => Unanswered(requests) < MaxUnanswered
           /\ now + BackfillStep <= MaxCollectTime
           /\ now' = now + BackfillStep
           /\ CANDLES' = [CANDLES EXCEPT ![k] = AddCandles(@, loaded)]
           /\ appended' = [appended EXCEPT ![k] = @ + Len(loaded)]
           /\ requests' = Append(requests, [pair |-> pair, tf |-> tf, limit |-> HistoryLimit,
                                            failed |-> (candles = None), loaded |-> Len(loaded),
                                            before |-> Len(CANDLES[k]), at |-> now])
           /\ work' = UnitsAfter(candles = None, work)
           /\ UNCHANGED cpc

\* the backfill phase (tasks.py:43-68)
CollectBackfill ==
    /\ cpc \in {"backfill", "btc"}
    /\ IF work = <<>> THEN NextPhase ELSE Request(Head(work)[1], Head(work)[2])
    /\ UNCHANGED <<held, cacheVars, anVars, schedVars, DEFAULT_PAIRS, ts, collected, pauses, poolVars>>

\* pairs = list(set(pairs + DEFAULT_PAIRS + ["BTCUSDT"])) (tasks.py:74)
WorkingSet(tracked, defaults) == tracked \cup SetOf(defaults) \cup {"BTCUSDT"}

CollectErrorStops ==
    /\ now + ErrorPause <= MaxCollectTime
    /\ now' = now + ErrorPause
    /\ cpc' = "stopped"
    /\ work' = <<>>
    /\ pauses' = pauses + 1

\* except Exception: log, asyncio.sleep(60), and "while True" goes round
\* (tasks.py:71, 89-91)
CollectError ==
    /\ now + ErrorPause <= MaxCollectTime
    /\ now' = now + ErrorPause
    /\ cpc' = "steady"
    /\ work' = <<>>
    /\ pauses' = pauses + 1

\* a steady-state cycle opens (tasks.py:72-76): the tracked pairs are read,
\* which may raise, then pairs and ts are set
CollectBegin ==
    /\ cpc = "steady"
    /\ \/ /\ CollectError
          /\ UNCHANGED ts
       \/ /\ \E order \in Orders(WorkingSet(TrackedPairs, DEFAULT_PAIRS)) : work' = order
          /\ ts' = now
          /\ cpc' = "prices"
          /\ UNCHANGED <<now, pauses>>
    /\ UNCHANGED <<storeVars, cacheVars, anVars, schedVars, DEFAULT_PAIRS, requests, collected, poolVars>>

\* the candle of tasks.py:81-84
SyntheticCandle(t, price, volume) ==
    [t |-> t, o |-> price, h |-> price, l |-> price, c |-> price, v |-> volume]

\* if price_data: (tasks.py:79)
AppendsCandle(price_data, hit) == price_data # None

\* the pairs left for "for pair in pairs" once the first of pairs was
\* visited: fetch_price turns a failure into None (indicators.py:64-66)
PairsAfter(failed, pairs) == Tail(pairs)

\* one pass of "for pair in pairs" (tasks.py:77-84), or the end of the loop
\* and the sleep (tasks.py:87)
CollectPair ==
    /\ cpc = "prices"
    /\ IF work = <<>>
       THEN /\ now + CHECK_INTERVAL <= MaxCollectTime
            /\ now' = now + CHECK_INTERVAL
            /\ cpc' = "steady"
            /\ UNCHANGED <<work, storeVars, cacheVars, collected>>
       ELSE LET pair == Head(work)
                hit == PriceCache_get(PRICE_CACHE, pair, now) # None
            IN /\ fetch_price(pair, now)
               /\ LET price_data == lastCall'.ret
                  IN /\ IF AppendsCandle(price_data, hit)
                        THEN add_candle(<<pair, "1h">>,
                                        SyntheticCandle(ts, price_data[1], price_data[2]))
                        ELSE UNCHANGED storeVars
                     /\ collected' = [collected EXCEPT ![pair] =
                            Append(@, [ts |-> ts, hit |-> hit, price_data |-> price_data,
                                       before |-> CANDLES[<<pair, "1h">>],
                                       rest |-> Tail(work)])]
               /\ work' = PairsAfter(lastCall'.ret = None, work)
               /\ UNCHANGED cpc
    /\ UNCHANGED <<anVars, schedVars, DEFAULT_PAIRS, ts, requests, pauses, poolVars>>

(***************************************************************************)
(* Specifications                                                          *)
(***************************************************************************)
InitStore ==
    /\ CANDLES = [k \in StoreKeys |-> <<>>]
    /\ appended = [k \in StoreKeys |-> 0]
    /\ held = NoRef

InitCache ==
    /\ PRICE_CACHE = <<>>
    /\ lastSet = [p \in CachePairs |-> None]
    /\ lastCall = NoCall

InitAnalyzer ==
    /\ required_conditions = RequiredConditions
    /\ analysis = NoAnalysis
    /\ remembered = NoAnalysis
    /\ helper = NoHelper
    /\ helperPrev = NoHelper

\* the collector at the head of a steady-state cycle, the default list fixed
CollectorSteady ==
    /\ DEFAULT_PAIRS = <<"ETHUSDT">>
    /\ cpc = "steady"
    /\ work = <<>>
    /\ ts = 0
    /\ requests = <<>>
    /\ collected = [p \in CollectPairs |-> <<>>]
    /\ pauses = 0

\* price_collector is started: the backfill of the default pairs is ahead
InitCollector ==
    /\ DEFAULT_PAIRS \in DefaultPairLists
    /\ cpc = "backfill"
    /\ work = Units(DEFAULT_PAIRS)
    /\ ts = 0
    /\ requests = <<>>
    /\ collected = [p \in CollectPairs |-> <<>>]
    /\ pauses = 0

(***************************************************************************)
(* The connection pool (database.py:53-93) and the operations that use it  *)
(***************************************************************************)
\* db_pool = DBPool(DB_PATH, pool_size=5)
pool_size == 5
\* how many command handlers run next to the two background tasks
MaxHandlers == 4
HandlerNames == <<"handler1", "handler2", "handler3", "handler4", "handler5", "handler6">>
Handlers == {HandlerNames[i] : i \in 1..MaxHandlers}
\* the tasks that call the functions of database.py: the two background
\* tasks (main.py:42-43) and the command handlers of the polling loop
DbTasks == {"price_collector", "signal_analyzer"} \cup Handlers
\* how the body of a database function can end: it returns, it raises, or
\* its task is cancelled while it awaits the connection
Outcomes == {"returned", "raised", "cancelled"}
NoConn == 0
NoOp == [stage |-> "idle", conn |-> NoConn]
\* DBPool.init's loop: pool_size connections, each put into the queue
Connected == [i \in 1..pool_size |-> i]

\* DBPool.release: the connection goes to the end of the queue
release(queue, conn) == Append(queue, conn)

\* a release placed after the statements instead of in a finally clause
AfterOperationNoFinally(outcome, queue, conn) ==
    IF outcome = "returned" THEN release(queue, conn) ELSE queue

\* the finally clause of a database function releases on every outcome
AfterOperation(outcome, queue, conn) == release(queue, conn)

\* the pool after a completed DBPool.init: the first connection was taken
\* for INIT_SQL and released behind the others
PoolReady ==
    /\ available = AfterOperation("returned", Tail(Connected), Head(Connected))
    /\ initialized = TRUE
    /\ dbops = [t \in DbTasks |-> NoOp]
    /\ dbLast = "returned"

\* DBPool.__init__
PoolNew ==
    /\ available = <<>>
    /\ initialized = FALSE
    /\ dbops = [t \in DbTasks |-> NoOp]
    /\ dbLast = "none"

\* DBPool.init, awaited by main before any task is created (main.py:35): it
\* fills the queue, runs INIT_SQL on an acquired connection and releases it
\* in its finally clause; _initialized is set only if INIT_SQL did not raise
PoolInit ==
    /\ ~initialized /\ available = <<>>
    /\ \E outcome \in {"returned", "raised"} :
        /\ available' = AfterOperation(outcome, Tail(Connected), Head(Connected))
        /\ initialized' = (outcome = "returned")
        /\ dbLast' = outcome
    /\ UNCHANGED <<dbops, storeVars, cacheVars, now, anVars, schedVars, collVars>>

\* conn = await db_pool.acquire(): Queue.get returns the oldest idle
\* connection, or suspends the task while the queue is empty
DbAcquire ==
    /\ initialized
    /\ \E t \in DbTasks :
        /\ dbops[t].stage = "idle"
        /\ IF available # <<>>
           THEN /\ dbops' = [dbops EXCEPT ![t] = [stage |-> "holding", conn |-> Head(available)]]
                /\ available' = Tail(available)
           ELSE /\ dbops' = [dbops EXCEPT ![t] = [stage |-> "waiting", conn |-> NoConn]]
                /\ UNCHANGED available
    /\ UNCHANGED <<initialized, dbLast, storeVars, cacheVars, now, anVars, schedVars, collVars>>

\* a task suspended in Queue.get resumes once the queue is not empty
DbWake ==
    /\ available # <<>>
    /\ \E t \in DbTasks :
        /\ dbops[t].stage = "waiting"
        /\ dbops' = [dbops EXCEPT ![t] = [stage |-> "holding", conn |-> Head(available)]]
        /\ available' = Tail(available)
    /\ UNCHANGED <<initialized, dbLast, storeVars, cacheVars, now, anVars, schedVars, collVars>>

\* a task cancelled while suspended in Queue.get: it took nothing
DbCancelWait ==
    /\ \E t \in DbTasks :
        /\ dbops[t].stage = "waiting"
        /\ dbops' = [dbops EXCEPT ![t] = NoOp]
    /\ dbLast' = "cancelled"
    /\ UNCHANGED <<available, initialized, storeVars, cacheVars, now, anVars, schedVars, collVars>>

\* try: <the function's statements> finally: await db_pool.release(conn)
DbFinish ==
    /\ \E t \in DbTasks, outcome \in Outcomes :
        /\ dbops[t].stage = "holding"
        /\ available' = AfterOperation(outcome, available, dbops[t].conn)
        /\ dbops' = [dbops EXCEPT ![t] = NoOp]
        /\ dbLast' = outcome
    /\ UNCHANGED <<initialized, storeVars, cacheVars, now, anVars, schedVars, collVars>>

NextPool == PoolInit \/ DbAcquire \/ DbWake \/ DbCancelWait \/ DbFinish


InitSched ==
    /\ LAST_SIGNALS = <<>>
    /\ pc = "cycle"
    /\ current_time = 0
    /\ todo = <<>>
    /\ users = <<>>
    /\ signal = None
    /\ attempts = 0
    /\ signals_sent = <<>>
    /\ dispatchLog = [p \in SchedPairs |-> <<>>]

Init == InitStore /\ InitCache /\ InitAnalyzer /\ InitSched /\ PoolReady /\ CollectorSteady /\ now = 0

NextStore == StoreAppend \/ StoreRead \/ StoreDrop

NextCache == CacheGet \/ CacheSet \/ CacheClearOld \/ CacheFetchPrice \/ Tick

SpecStore == Init /\ [][NextStore]_vars

\* The dispatch loop, on a store the collector has filled: BTCUSDT holds a
\* long setup on 100 1h candles, ETHUSDT a short setup on 50 or 100 1h candles.
InitDispatch ==
    /\ \E n \in {MinCandles1h, SchedMin1h} :
         CANDLES = [k \in SchedKeys |->
                    IF k[1] = "BTCUSDT"
                    THEN IF k[2] = "1h" THEN Series1h("long", SchedMin1h)
                         ELSE IF k[2] = "4h" THEN Series4h("long", MinCandles4h)
                         ELSE Series1d(MinCandles1d)
                    ELSE IF k[2] = "1h" THEN Series1h("short", n)
                         ELSE IF k[2] = "4h" THEN Series4h("short", MinCandles4h)
                         ELSE Series1d(MinCandles1d)]
    /\ appended = [k \in SchedKeys |-> Len(CANDLES[k])]
    /\ held = NoRef
    /\ InitCache /\ InitAnalyzer /\ InitSched /\ PoolReady /\ CollectorSteady /\ now = 0

Next == SchedBegin \/ SchedPair \/ SchedSend

Spec == InitDispatch /\ [][Next]_vars

SpecCache == Init /\ [][NextCache]_vars

\* the series of BTCUSDT: the family of shapes and lengths, the worked
\* example on a 4h series of RSI 44 and on one of RSI 25, the 4h series
\* with a low touched twice, and the price at the upper end of the zone
AnInputs ==
    (Shapes1h \X AnLengths1h \X Shapes4h \X AnLengths4h \X AnLengths1d)
    \cup {<<"example", MinCandles1h, s4, MinCandles4h, MinCandles1d>> : s4 \in {"rsi44", "long"}}
    \cup {<<"long", MinCandles1h, "twice", MinCandles4h, MinCandles1d>>,
          <<"edge", MinCandles1h, "long", MinCandles4h, MinCandles1d>>}

InitAnalyze ==
    /\ \E in \in AnInputs :
          CANDLES = [k \in AnKeys |->
                        IF k[1] = "BTCUSDT"
                        THEN IF k[2] = "1h" THEN Series1h(in[1], in[2])
                             ELSE IF k[2] = "4h" THEN Series4h(in[3], in[4])
                             ELSE Series1d(in[5])
                        ELSE IF k[2] = "1h" THEN Series1h("short", MinCandles1h)
                             ELSE IF k[2] = "4h" THEN Series4h("short", MinCandles4h)
                             ELSE Series1d(MinCandles1d)]
    /\ appended = [k \in AnKeys |-> 0]
    /\ held = NoRef
    /\ InitCache /\ InitAnalyzer /\ InitSched /\ PoolReady /\ CollectorSteady /\ now = 0

\* The collector alone, from its start on an empty store
InitCollect ==
    /\ CANDLES = [k \in CollectKeys |-> <<>>]
    /\ appended = [k \in CollectKeys |-> 0]
    /\ held = NoRef
    /\ InitCache /\ InitAnalyzer /\ InitSched /\ PoolReady /\ InitCollector /\ now = CollectStart

NextCollect == CollectBackfill \/ CollectBegin \/ CollectPair

SpecCollect == InitCollect /\ [][NextCollect]_vars

\* The two tasks main() starts (main.py:46-48), from their start on an
\* empty store.  asyncio runs one task at a time and changes task only where
\* the running one awaits: the collector gets its turn only while the
\* dispatch loop is suspended.  The clock advances by the sleeps of both.
InitTasks ==
    /\ CANDLES = [k \in CollectKeys |-> <<>>]
    /\ appended = [k \in CollectKeys |-> 0]
    /\ held = NoRef
    /\ InitCache /\ InitAnalyzer /\ InitSched /\ PoolReady /\ InitCollector /\ now = CollectStart
    /\ DEFAULT_PAIRS = <<>>

AwaitPointsEverywhere == {"cycle", "pairs", "send"}

\* where signal_analyzer is suspended: in the sleep between cycles and the
\* query that opens a cycle (tasks.py:111, 176), and in the calls of the
\* subscriber loop (tasks.py:157-162); from the query to the first send
\* (tasks.py:112-156) it does not await
AwaitPoints == {"cycle", "send"}

RunCollector == pc \in AwaitPoints /\ NextCollect

RunDispatch == Next

NextTasks == RunCollector \/ RunDispatch

SpecTasks == InitTasks /\ [][NextTasks]_vars

\* Synthetic candles at the end of a 1h series up to which the steady state
\* is followed
MaxSynthetic == 5
SteadyVolumes == {500}

\* a candle as the steady state builds it: one price for o, h, l and c
IsSynthetic(c) == c.o = c.c /\ c.h = c.c /\ c.l = c.c

RECURSIVE TrailingSynthetic(_)
\* the number of synthetic candles a series ends with
TrailingSynthetic(series) ==
    IF series = <<>> \/ ~IsSynthetic(series[Len(series)]) THEN 0
    ELSE 1 + TrailingSynthetic(SubSeq(series, 1, Len(series) - 1))

\* a steady-state cycle of price_collector appends the ticker of a pair,
\* the price unchanged since the last candle, to the pair's 1h series
\* (tasks.py:76-84)
SteadyAppend ==
    \E pair \in SchedPairs, volume \in SteadyVolumes :
        LET series == CANDLES[<<pair, "1h">>]
        IN /\ TrailingSynthetic(series) < MaxSynthetic
           /\ add_candle(<<pair, "1h">>,
                         SyntheticCandle(now, series[Len(series)].c, volume))
           /\ lastCall' = NoCall
           /\ UNCHANGED <<PRICE_CACHE, lastSet, now, anVars, schedVars, collVars, poolVars>>

\* the analyzer called on the store between the appends of the steady state
NextSteady == AnalyzeCall \/ SteadyAppend

SpecSteady == InitDispatch /\ [][NextSteady]_vars

\* the pool from its construction, used by the tasks in every interleaving
InitPool ==
    /\ InitStore /\ InitCache /\ InitAnalyzer /\ InitSched /\ CollectorSteady /\ now = 0
    /\ PoolNew

SpecPool == InitPool /\ [][NextPool]_vars

\* the two tasks with the analyzer called as the sources have it
RunDispatchAsWritten == SchedBegin \/ SchedPairAsWritten

NextAsWritten == RunCollector \/ RunDispatchAsWritten

SpecAsWritten == InitTasks /\ [][NextAsWritten]_vars

NextHelpers == CreateSignalCall \/ MomentumCall \/ SidesCall

SpecHelpers == Init /\ [][NextHelpers]_vars

NextAnalyze == AnalyzeCall \/ AnAppend \/ AnCooldown \/ AnCache

SpecAnalyze == InitAnalyze /\ [][NextAnalyze]_vars


(***************************************************************************)
(* Candle Store claims                                                     *)
(***************************************************************************)
\* C1: after any sequence of add_candle calls a series holds at most 500
\* candles and is exactly the last min(n, 500) of the n candles appended,
\* in append order.
C1_FifoEviction ==
    \A k \in StoreKeys :
        LET n == appended[k]
            m == Min(n, Capacity)
        IN /\ Len(CANDLES[k]) <= Capacity
           /\ CANDLES[k] = [i \in 1..m |-> NthCandle(n - m + i)]

\* An eviction has taken place: more than 500 candles were appended.
C1_Witness ==
    /\ appended[<<"BTCUSDT", "1h">>] > Capacity
    /\ Len(CANDLES[<<"BTCUSDT", "1h">>]) = Capacity

\* C8: the sequence returned by get_candles is a snapshot; add_candle calls
\* made after the read do not change the sequence the caller holds.
C8_SnapshotUnchanged == held # NoRef => held.val = held.atRead

(***************************************************************************)
(* Price Cache claims                                                      *)
(***************************************************************************)
\* What get must return for pair p at time t, from the history of sets.
Expected(p, t) ==
    IF lastSet[p] # None /\ t - lastSet[p][3] < TTL
    THEN <<lastSet[p][1], lastSet[p][2]>>
    ELSE None

\* C5: get(pair) at time now returns the (price, volume) of the latest
\* set(pair, ...) exactly when now - cached_at < TTL, and absent when the
\* pair was never set or now - cached_at >= TTL; a set replaces the entry
\* of its pair whatever the age of the previous one.
C5_GetHonorsTTL ==
    /\ \A p \in CachePairs : PriceCache_get(PRICE_CACHE, p, now) = Expected(p, now)
    /\ lastCall.op = "get" => lastCall.ret = Expected(lastCall.pair, now)
    /\ lastCall.op = "set" => PRICE_CACHE[lastCall.pair] = lastSet[lastCall.pair]

\* A get answered absent for an entry that is still stored, aged exactly TTL.
C5_Witness ==
    /\ lastCall.op = "get"
    /\ lastCall.ret = None
    /\ lastCall.pair \in DOMAIN PRICE_CACHE
    /\ now - PRICE_CACHE[lastCall.pair][3] = TTL

\* C6: with a non-stale entry for the pair, fetch_price returns the cached
\* (price, volume), makes no external fetch and leaves the cache (cached_at
\* included) as it was; the external fetch is made only on a miss.
C6_HitSkipsFetch ==
    [][\A p \in CachePairs :
        (lastCall'.op = "fetch_price" /\ lastCall'.pair = p) =>
            IF PriceCache_get(PRICE_CACHE, p, now) # None
            THEN /\ lastCall'.ret = PriceCache_get(PRICE_CACHE, p, now)
                 /\ ~lastCall'.ext
                 /\ PRICE_CACHE' = PRICE_CACHE
            ELSE lastCall'.ext]_vars

\* fetch_price answered from an entry cached some time ago.
C6_Witness ==
    /\ lastCall.op = "fetch_price"
    /\ ~lastCall.ext
    /\ lastCall.ret # None
    /\ now - PRICE_CACHE[lastCall.pair][3] > 0

\* C7: clear_old removes exactly the entries with now - cached_at >= TTL,
\* leaves every other entry unchanged, and changes the result of no get at
\* that or any later time.
C7_SweepNotNeeded ==
    [][lastCall'.op = "clear_old" =>
        /\ DOMAIN PRICE_CACHE' = {p \in DOMAIN PRICE_CACHE : now - PRICE_CACHE[p][3] < TTL}
        /\ \A p \in DOMAIN PRICE_CACHE' : PRICE_CACHE'[p] = PRICE_CACHE[p]
        /\ \A p \in CachePairs, t \in now..MaxTime :
              PriceCache_get(PRICE_CACHE', p, t) = PriceCache_get(PRICE_CACHE, p, t)]_vars

\* A sweep that removed a stale entry and kept a non-stale one.
C7_Witness ==
    /\ lastCall.op = "clear_old"
    /\ \E p \in CachePairs : lastSet[p] # None /\ p \notin DOMAIN PRICE_CACHE
    /\ \E p \in CachePairs : p \in DOMAIN PRICE_CACHE /\ now - PRICE_CACHE[p][3] > 0


(***************************************************************************)
(* Analyzer claims                                                         *)
(***************************************************************************)
TooShort(a) ==
    \/ Len(a.candles_1h) < 50
    \/ Len(a.candles_4h) < 50
    \/ Len(a.candles_1d) < 30

\* C9: analyze_pair returns None whenever it is given fewer than 50 1h
\* candles, or fewer than 50 4h candles, or fewer than 30 1d candles,
\* whatever the candles hold.
C9_InsufficientDataIsAbsent ==
    (analysis.called /\ TooShort(analysis)) => analysis.result = None

\* A call one 1h candle short, on candles that would otherwise give a signal.
C9_Witness ==
    /\ analysis.called
    /\ Len(analysis.candles_1h) = 49
    /\ Len(analysis.candles_4h) = 50
    /\ Len(analysis.candles_1d) = 30
    /\ analysis.result = None
    /\ AnalyzeBody(RequiredConditions, analysis.pair, analysis.candles_1h,
                   analysis.candles_4h, analysis.candles_1d) # None

SameArguments(a, b) ==
    /\ a.called /\ b.called
    /\ a.pair = b.pair
    /\ a.candles_1h = b.candles_1h
    /\ a.candles_4h = b.candles_4h
    /\ a.candles_1d = b.candles_1d

Delivered(d) == d.first # -1

\* C2: once a signal for a symbol is dispatched at time T, the time its
\* deliveries take place, no delivery of a later dispatch for that symbol
\* takes place before T + SIGNAL_COOLDOWN.
C2_CooldownLaw ==
    \A p \in SchedPairs : \A i, j \in 1..Len(dispatchLog[p]) :
        (i < j /\ Delivered(dispatchLog[p][i]) /\ Delivered(dispatchLog[p][j]))
            => dispatchLog[p][j].first >= dispatchLog[p][i].first + SIGNAL_COOLDOWN

today_start == now - (now % DaySeconds)

DispatchedToday(p) ==
    Cardinality({i \in 1..Len(dispatchLog[p]) :
                    Delivered(dispatchLog[p][i]) /\ dispatchLog[p][i].cycle >= today_start})

\* C3: the number of signals dispatched for a symbol during the current day
\* never exceeds MAX_SIGNALS_PER_DAY.
C3_DailyCap == \A p \in SchedPairs : DispatchedToday(p) <= MAX_SIGNALS_PER_DAY

\* C4: an entry of LAST_SIGNALS, once set, is never removed, and every
\* write replaces it with a value greater than or equal to the previous one.
C4_MapGrowsForward ==
    [][\A p \in DOMAIN LAST_SIGNALS :
          p \in DOMAIN LAST_SIGNALS' /\ LAST_SIGNALS'[p] >= LAST_SIGNALS[p]]_vars

\* an entry written by one dispatch and overwritten by a later one, next to
\* an entry of the other symbol
C4_Witness ==
    /\ DOMAIN LAST_SIGNALS = SchedPairs
    /\ \E p \in SchedPairs : \E i, j \in 1..Len(dispatchLog[p]) :
          /\ i < j
          /\ dispatchLog[p][i].recorded /\ dispatchLog[p][j].recorded
          /\ dispatchLog[p][i].cycle < dispatchLog[p][j].cycle
          /\ LAST_SIGNALS[p] = dispatchLog[p][j].cycle

(***************************************************************************)
(* Signal construction                                                     *)
(***************************************************************************)
\* C11: for n = 0..5 satisfied conditions the confidence of _create_signal
\* is min(100, 20 n + (10 if n = 5)): an integer of [0, 100], a multiple of
\* 20 optionally plus 10, 100 for n = 5, and no smaller than the confidence
\* of a call with fewer conditions.
C11_Confidence ==
    [][helper'.op = "create_signal" =>
        LET n == helper'.count
            c == helper'.signal.confidence
        IN /\ c = Min(100, 20 * n + (IF n = 5 THEN 10 ELSE 0))
           /\ c \in 0..100
           /\ c % 20 = 0 \/ (c - 10) % 20 = 0
           /\ n = 5 => c = 100
           /\ (helper.op = "create_signal" /\ helper.count <= n)
                 => helper.signal.confidence <= c]_vars

\* a call with five conditions after a call with four
C11_Witness ==
    /\ helper.op = "create_signal" /\ helper.count = 5 /\ helper.signal.confidence = 100
    /\ helperPrev.op = "create_signal" /\ helperPrev.count = 4
    /\ helperPrev.signal.confidence = 80

\* a < b for fractions
RatLess(a, b) == a.n * b.d < b.n * a.d

\* C12: for a positive current price, LONG has current_price < TP1 < TP2 <
\* TP3 and SHORT has current_price > TP1 > TP2 > TP3, and two signals of
\* the same side and current price have the same take-profits whatever
\* their reference levels.
C12_TakeProfitOrder ==
    [][(helper'.op = "create_signal" /\ helper'.current_price > 0) =>
        LET g == helper'.signal
            p == Rat(helper'.current_price, 1)
        IN /\ helper'.side = "LONG" =>
                /\ RatLess(p, g.take_profit_1)
                /\ RatLess(g.take_profit_1, g.take_profit_2)
                /\ RatLess(g.take_profit_2, g.take_profit_3)
           /\ helper'.side = "SHORT" =>
                /\ RatLess(g.take_profit_1, p)
                /\ RatLess(g.take_profit_2, g.take_profit_1)
                /\ RatLess(g.take_profit_3, g.take_profit_2)
           /\ (/\ helper.op = "create_signal"
               /\ helper.side = helper'.side
               /\ helper.current_price = helper'.current_price)
                 => /\ helper.signal.take_profit_1 = g.take_profit_1
                    /\ helper.signal.take_profit_2 = g.take_profit_2
                    /\ helper.signal.take_profit_3 = g.take_profit_3]_vars

\* two SHORT signals at the same price on different levels
C12_Witness ==
    /\ helper.op = "create_signal" /\ helperPrev.op = "create_signal"
    /\ helper.side = "SHORT" /\ helperPrev.side = "SHORT"
    /\ helper.current_price = helperPrev.current_price
    /\ helper.level # helperPrev.level
    /\ helper.signal.take_profit_3 = helperPrev.signal.take_profit_3
    /\ RatLess(helper.signal.take_profit_3, helper.signal.take_profit_2)

(***************************************************************************)
(* The analyzer on the worked example                                      *)
(***************************************************************************)
\* the red candles among the last five, oldest first
RedVolumes(candles) ==
    LET IsRed(c) == c.c < c.o
        red == SelectSeq(LastK(candles, 5), IsRed)
    IN [i \in 1..Len(red) |-> red[i].v]

\* The example's setup without its RSI(4h): a support at 100.00 among the
\* levels of the 4h series, the last 1h close at 100.80, RSI(1h) = 38, two
\* red candles of volumes 120 then 80 among the last five 1h candles.
ExampleSetup(a) ==
    /\ a.called /\ ~TooShort(a)
    /\ a.candles_1h[Len(a.candles_1h)].c = 10080
    /\ calculate_rsi(Closes(a.candles_1h)) = <<Rat(38, 1)>>
    /\ RedVolumes(a.candles_1h) = <<120, 80>>
    /\ LET levels == find_key_levels(a.candles_4h)
       IN ~levels.raised /\ levels.supports = <<Rat(10000, 1)>>

Rsi4h(a) == calculate_rsi(Closes(a.candles_4h))

ExampleSignal(g) ==
    /\ g # None
    /\ g[1].side = "LONG"
    /\ g[1].confidence = 100
    /\ g[1].entry_zone = <<Rat(9950, 1), Rat(10150, 1)>>
    /\ g[1].stop_loss = Rat(9850, 1)

C14_MomentumConditions ==
    (helper.op = "momentum" /\ helper.rsi_1h # None /\ helper.rsi_4h # None) =>
        LET r1 == helper.rsi_1h[1]
            r4 == helper.rsi_4h[1]
        IN /\ helper.long <=> (RsiBetween(r1, 30, 45) /\ RatLess(r4, r1))
           /\ helper.short <=> (RsiBetween(r1, 55, 70) /\ RatLess(r1, r4))

\* C15: every signal analyze_pair returns has confidence 100, hence at
\* least 80, and the position size of five conditions, and the momentum and
\* volume conditions of its side hold of the candles it was given.
C15_AllFiveConditions ==
    (analysis.called /\ analysis.result # None) =>
        LET g == analysis.result[1]
            rsi_1h == calculate_rsi(Closes(analysis.candles_1h))
            rsi_4h == calculate_rsi(Closes(analysis.candles_4h))
        IN /\ g.confidence = 100 /\ g.confidence >= MinConfidence
           /\ g.position_size = get_position_size(5)
           /\ g.logic.rsi /\ g.logic.volume /\ g.logic.btc
           /\ g.side = "LONG" =>
                /\ rsi_from_oversold(rsi_1h, rsi_4h)
                /\ check_volume_decrease(analysis.candles_1h, TRUE)
           /\ g.side = "SHORT" =>
                /\ rsi_from_overbought(rsi_1h, rsi_4h)
                /\ check_volume_decrease(analysis.candles_1h, FALSE)

\* a SHORT signal returned
C15_Witness ==
    /\ analysis.called /\ analysis.result # None
    /\ analysis.result[1].side = "SHORT"
    /\ analysis.result[1].confidence = 100

(***************************************************************************)
(* Dispatch loop: retries, subscribers, bookkeeping                        *)
(***************************************************************************)
\* C16: a delivery answered with RetryAfter is retried a single time: a
\* call of send_message_safe never makes a second retry.
C16_SingleRetry == attempts <= 1

\* C17: a call of send_message_safe makes a bounded number of attempts even
\* when every attempt is answered with RetryAfter: its retries stay under
\* the number MaxRetries of consecutive RetryAfter answers explored.
C17_BoundedRetry == attempts < MaxRetries

\* the dispatch of pair p that the subscriber loop is working on
Running(p, i) ==
    /\ pc = "send" /\ Head(todo) = p
    /\ i = Len(dispatchLog[p]) /\ dispatchLog[p][i].cycle = current_time

Attempted(d) == [k \in 1..Len(d.outcomes) |-> d.outcomes[k].user_id]

\* C18: in a dispatch with a failed delivery every subscriber of the symbol
\* is attempted: while the dispatch runs the subscribers not yet attempted
\* are all still to come, when it is recorded all were attempted, and a
\* dispatch that was abandoned was not abandoned after a failed delivery.
C18_FailureDoesNotBlock ==
    \A p \in SchedPairs : \A i \in 1..Len(dispatchLog[p]) :
        LET d == dispatchLog[p][i]
        IN (\E k \in 1..Len(d.outcomes) : ~d.outcomes[k].ok) =>
              IF d.recorded THEN Attempted(d) = UsersOf(Rows, p)
              ELSE IF Running(p, i) THEN Attempted(d) \o users = UsersOf(Rows, p)
              ELSE d.outcomes[Len(d.outcomes)].ok

\* a recorded dispatch whose first delivery failed and whose second succeeded
C18_Witness ==
    \E p \in SchedPairs : \E i \in 1..Len(dispatchLog[p]) :
        LET d == dispatchLog[p][i]
        IN /\ d.recorded /\ Len(d.outcomes) = 2
           /\ ~d.outcomes[1].ok /\ d.outcomes[2].ok

\* C19: once delivery has been attempted for all subscribers of a symbol in
\* a cycle, LAST_SIGNALS[symbol] is that cycle's current_time, whatever the
\* outcomes; an entry of LAST_SIGNALS is the cycle time of a dispatch.
C19_TimestampAfterAttempts ==
    \A p \in SchedPairs :
        /\ Len(dispatchLog[p]) > 0 =>
              LET i == Len(dispatchLog[p])
                  d == dispatchLog[p][i]
              IN (Attempted(d) = UsersOf(Rows, p) /\ ~Running(p, i))
                    => (p \in DOMAIN LAST_SIGNALS /\ LAST_SIGNALS[p] = d.cycle)
        /\ p \in DOMAIN LAST_SIGNALS =>
              \E i \in 1..Len(dispatchLog[p]) : dispatchLog[p][i].cycle = LAST_SIGNALS[p]

\* the rows of signals_sent for subscriber u and pair p written during dispatch d
RowsOf(u, p, d) ==
    {k \in 1..Len(signals_sent) :
        /\ signals_sent[k].user_id = u /\ signals_sent[k].pair = p
        /\ d.first <= signals_sent[k].sent_ts /\ signals_sent[k].sent_ts <= d.last}

Successes(u, d) == {k \in 1..Len(d.outcomes) : d.outcomes[k].user_id = u /\ d.outcomes[k].ok}

\* C20: every row of signals_sent was written during a dispatch of its pair
\* in which the delivery to its subscriber succeeded, and a dispatch has at
\* most one row per subscriber, none for a subscriber whose delivery failed.
C20_LogMatchesDeliveries ==
    /\ \A k \in 1..Len(signals_sent) :
          \E i \in 1..Len(dispatchLog[signals_sent[k].pair]) :
              LET d == dispatchLog[signals_sent[k].pair][i]
              IN /\ k \in RowsOf(signals_sent[k].user_id, signals_sent[k].pair, d)
                 /\ Successes(signals_sent[k].user_id, d) # {}
    /\ \A p \in SchedPairs : \A i \in 1..Len(dispatchLog[p]) :
          \A k \in 1..Len(UsersOf(Rows, p)) :
              LET u == UsersOf(Rows, p)[k]
                  d == dispatchLog[p][i]
              IN /\ Cardinality(RowsOf(u, p, d)) <= 1
                 /\ Cardinality(RowsOf(u, p, d)) <= Cardinality(Successes(u, d))

\* a recorded dispatch with a failed and a successful delivery, and the one
\* row of the successful one
C20_Witness ==
    \E p \in SchedPairs : \E i \in 1..Len(dispatchLog[p]) :
        LET d == dispatchLog[p][i]
        IN /\ d.recorded /\ Len(d.outcomes) = 2
           /\ ~d.outcomes[1].ok /\ d.outcomes[2].ok
           /\ RowsOf(d.outcomes[1].user_id, p, d) = {}
           /\ Cardinality(RowsOf(d.outcomes[2].user_id, p, d)) = 1
           /\ Len(signals_sent) >= 2

(***************************************************************************)
(* Claims on the collector                                                 *)
(***************************************************************************)
\* the (pair, timeframe) of the history requests made so far, in order
Requested == [i \in 1..Len(requests) |-> <<requests[i].pair, requests[i].tf>>]

\* every request of the backfill: the default pairs, then BTCUSDT
AllUnits == Units(DEFAULT_PAIRS) \o Units(<<"BTCUSDT">>)

\* the pairs the cycle of time t has visited
Visited(t) == {p \in CollectPairs : \E i \in 1..Len(collected[p]) : collected[p][i].ts = t}

LastOf(xs) == xs[Len(xs)]

\* C22: a failed fetch is isolated to its unit of work.  Backfill: whatever
\* failed, the requests made and the requests ahead are together the
\* requests of all default pairs and of BTCUSDT on all timeframes, in order,
\* and a request that failed appended nothing.  Steady state: whatever
\* failed, the pairs visited in the cycle and the pairs ahead are together
\* the working set, and a visit whose fetch failed appended nothing.
C22_FailureIsolated ==
    /\ [](/\ cpc = "backfill" => Requested \o work = Units(DEFAULT_PAIRS)
          /\ cpc = "btc" => Requested \o work = AllUnits
          /\ cpc \in {"steady", "prices"} => Requested = AllUnits
          /\ cpc = "prices" =>
                Visited(ts) \cup SetOf(work) = WorkingSet(TrackedPairs, DEFAULT_PAIRS))
    /\ [][/\ (Len(requests') > Len(requests) /\ LastOf(requests').failed)
                => CANDLES' = CANDLES
          /\ \A p \in CollectPairs :
                (Len(collected'[p]) > Len(collected[p]) /\ LastOf(collected'[p]).price_data = None)
                   => CANDLES' = CANDLES]_vars

\* a history request failed and a later one loaded its candles; a price
\* fetch failed and a pair visited later in the same cycle got its candle
C22_Witness ==
    /\ \E i, j \in 1..Len(requests) :
          i < j /\ requests[i].failed /\ requests[j].loaded > 0
    /\ \E p, q \in CollectPairs : \E i \in 1..Len(collected[p]), j \in 1..Len(collected[q]) :
          /\ collected[p][i].ts = collected[q][j].ts
          /\ ~collected[p][i].hit /\ collected[p][i].price_data = None
          /\ q \in SetOf(collected[p][i].rest)
          /\ collected[q][j].price_data # None
          /\ Len(CANDLES[<<q, "1h">>]) > Len(collected[q][j].before)

\* the requests of the backfill made for series k
RequestsFor(k) == {i \in 1..Len(requests) : Requested[i] = k}

\* C23: once the backfill is over, every pair of the working set (tracked
\* pairs, default pairs, BTCUSDT) has had, on each timeframe, exactly one
\* history request, of up to 100 candles.
C23_BackfillCoversWorkingSet ==
    cpc \in {"steady", "prices"} =>
        \A p \in WorkingSet(TrackedPairs, DEFAULT_PAIRS), tf \in TFs :
            /\ Cardinality(RequestsFor(<<p, tf>>)) = 1
            /\ \A i \in RequestsFor(<<p, tf>>) : requests[i].limit = HistoryLimit

\* the latest steady-state visit of pair p, where the step made one
VisitOf(p, before, after) == IF Len(after[p]) > Len(before[p]) THEN <<LastOf(after[p])>> ELSE <<>>

\* C24: in a steady-state cycle a candle is appended to the 1h series of a
\* pair only after a cache miss and a successful fetch; the fetched value is
\* then in the cache and the candle has open = high = low = close = the
\* fetched price; a visit that hits the cache appends nothing.
C24_AppendOnMissOnly ==
    [][\A p \in CollectPairs :
          LET v == VisitOf(p, collected, collected')
              k == <<p, "1h">>
          IN v # <<>> =>
                /\ CANDLES'[k] # CANDLES[k] =>
                      /\ ~v[1].hit
                      /\ v[1].price_data # None
                      /\ PriceCache_get(PRICE_CACHE', p, now') = v[1].price_data
                      /\ CANDLES'[k] = Append(CANDLES[k],
                            SyntheticCandle(ts, v[1].price_data[1], v[1].price_data[2]))
                /\ v[1].hit => CANDLES' = CANDLES]_vars

\* the timestamps of a series never go back
Monotonic(series) == \A i \in 1..(Len(series) - 1) : series[i].t <= series[i + 1].t

\* C26: in every state of the collector, whatever the default pair list,
\* the timestamps of every series are monotonic in sequence order.
C26_MonotonicTimestamps == \A k \in CollectKeys : Monotonic(CANDLES[k])

(***************************************************************************)
(* Claims on the two tasks together                                        *)
(***************************************************************************)
\* a step of signal_analyzer in which an exception leaves the try block:
\* the cycle ends before its pairs are through
DispatchFault ==
    \/ pc = "pairs" /\ todo # <<>> /\ pc' = "cycle"
    \/ pc = "send" /\ pc' = "cycle"

\* C21: neither loop terminates.  An exception raised in a cycle of the
\* dispatch loop (by the analysis or by log_signal) is followed by the sleep
\* of 60 s and the head of the next cycle; an exception raised in a cycle of
\* the collector (by get_all_tracked_pairs) is followed by the error pause of
\* 60 s and the head of the next cycle; either loop is always at a position
\* of its body, and at the head of a cycle the cycle can start.
C21_LoopsNeverTerminate ==
    /\ [][/\ DispatchFault => now' = now + CycleSleep
          /\ pauses' > pauses => cpc' = "steady" /\ now' = now + ErrorPause]_vars
    /\ [](/\ pc \in {"cycle", "pairs", "send"}
          /\ cpc \in {"backfill", "btc", "steady", "prices"}
          /\ pc = "cycle" => ENABLED SchedBegin
          /\ cpc = "steady" => ENABLED CollectBegin)

\* the collector has caught an exception, paused 60 s and then collected
\* the price of BTCUSDT in a new cycle, while the dispatch loop is in a cycle
C21_Witness ==
    /\ pauses > 0
    /\ collected["BTCUSDT"] # <<>>
    /\ LastOf(collected["BTCUSDT"]).ts >= CollectStart + ErrorPause
    /\ pc = "pairs"

\* a step in which price_collector made a history request or visited a pair
CollectorStep == requests' # requests \/ collected' # collected

IsPrefix(xs, ys) == Len(xs) <= Len(ys) /\ SubSeq(ys, 1, Len(xs)) = xs

\* C25: the collector is the sole writer of the store.  A step that changes
\* a series is a step of price_collector, it changes nothing of the dispatch
\* loop or the analyzer, and it appends to the series; the steps of the
\* dispatch loop, with their reads and analyses, leave every series as it is.
C25_SoleWriter ==
    [][CANDLES' # CANDLES =>
          /\ CollectorStep
          /\ UNCHANGED <<schedVars, anVars>>
          /\ \A k \in CollectKeys : IsPrefix(CANDLES[k], CANDLES'[k])]_vars

\* the dispatch loop has analysed BTCUSDT on the candles of the backfill and
\* dispatched it; the collector has appended a candle to the series since
C25_Witness ==
    /\ dispatchLog["BTCUSDT"] # <<>>
    /\ collected["BTCUSDT"] # <<>>
    /\ Len(CANDLES[<<"BTCUSDT", "1h">>]) > Available("1h")
    /\ LastOf(collected["BTCUSDT"]).ts > LastOf(dispatchLog["BTCUSDT"]).cycle

\* signal_analyzer is between two awaits, in the stretch that reads the
\* series of a pair and calls the analyzer on them
InSyncStretch == pc = "pairs"

Cooling(p, t) ==
    \E i \in 1..Len(dispatchLog[p]) :
        /\ dispatchLog[p][i].outcomes # <<>>
        /\ dispatchLog[p][i].cycle < t
        /\ t - dispatchLog[p][i].cycle < SIGNAL_COOLDOWN

\* the iteration of "for pair in active_pairs" for pair p is about to run
Visiting(p) == pc = "pairs" /\ todo # <<>> /\ Head(todo) = p

\* C28: a symbol is in COOLDOWN from its dispatch until the cooldown has
\* elapsed, and ELIGIBLE otherwise; the state is looked up when a cycle
\* visits the symbol.  A cycle that visits a symbol in COOLDOWN skips it,
\* without analysis or delivery, and a symbol the cycle skips for its
\* cooldown is in COOLDOWN.
C28_CooldownStateMachine ==
    [][\A p \in SchedPairs :
          Visiting(p) =>
             /\ Cooling(p, current_time) =>
                   /\ pc' = "pairs" /\ todo' = Tail(todo)
                   /\ dispatchLog' = dispatchLog
             /\ InCooldown(LAST_SIGNALS, p, current_time) => Cooling(p, current_time)]_vars

\* pair p, visited now, is not in cooldown, has the candle history and its
\* candles meet the five conditions of a side
Qualifies(p) ==
    /\ Visiting(p)
    /\ ~InCooldown(LAST_SIGNALS, p, current_time)
    /\ ~NotEnoughCandles(GetCandles(CANDLES, <<p, "1h">>).val,
                         GetCandles(CANDLES, <<p, "4h">>).val,
                         GetCandles(CANDLES, <<p, "1d">>).val)
    /\ analyze_pair(required_conditions, p, GetCandles(CANDLES, <<p, "1h">>).val,
                    GetCandles(CANDLES, <<p, "4h">>).val,
                    GetCandles(CANDLES, <<p, "1d">>).val) # None

\* C29: the visit of a subscribed symbol that is not in cooldown, has the
\* candle history and meets the five conditions of a side obtains the
\* signal from the analyzer and opens, in that cycle, the delivery to every
\* subscriber of the symbol.
C29_QualifyingSymbolDispatched ==
    [][\A p \in SchedPairs :
          Qualifies(p) =>
             /\ pc' = "send"
             /\ signal' = analyze_pair(required_conditions, p,
                                       GetCandles(CANDLES, <<p, "1h">>).val,
                                       GetCandles(CANDLES, <<p, "4h">>).val,
                                       GetCandles(CANDLES, <<p, "1d">>).val)
             /\ users' = UsersOf(Rows, p)
             /\ Len(dispatchLog'[p]) = Len(dispatchLog[p]) + 1]_vars

\* C30: when the analysis of the symbol a cycle visits raises, the fault
\* stays with that symbol: the symbols the cycle has still to visit remain
\* to be visited, the cycle goes on with them (or first with the sends of
\* the visited symbol).
C30_FaultConfinedToSymbol ==
    [][\A p \in SchedPairs :
          (Visiting(p) /\ Tail(todo) # <<>>) =>
             \/ pc' = "pairs" /\ todo' = Tail(todo)
             \/ pc' = "send" /\ todo' = todo]_vars

(***************************************************************************)
(* Claims on the history check and on the analyzer's key levels and sides  *)
(***************************************************************************)
\* the data check of analyze_pair (professional_analyzer.py:35)
InsufficientData(candles_1h, candles_4h, candles_1d) ==
    \/ Len(candles_1h) < MinCandles1h
    \/ Len(candles_4h) < MinCandles4h
    \/ Len(candles_1d) < MinCandles1d

\* C31: when a cycle visits a symbol, the history check of the dispatch
\* loop skips it exactly when the analyzer's own data check would find too
\* few candles: fewer than 50 of 1h, 50 of 4h or 30 of 1d.
C31_HistoryCheckAgrees ==
    \A p \in SchedPairs :
       (Visiting(p) /\ ~InCooldown(LAST_SIGNALS, p, current_time)) =>
          (NotEnoughCandles(GetCandles(CANDLES, <<p, "1h">>).val,
                            GetCandles(CANDLES, <<p, "4h">>).val,
                            GetCandles(CANDLES, <<p, "1d">>).val)
             <=> InsufficientData(GetCandles(CANDLES, <<p, "1h">>).val,
                                  GetCandles(CANDLES, <<p, "4h">>).val,
                                  GetCandles(CANDLES, <<p, "1d">>).val))

\* the levels of one side as the key-level search describes them: the
\* candidates within 10% of the price, sorted and clustered; none when every
\* candidate is farther
KeptLevels(xs, above, last_close, below) ==
    LET f == filter_levels(Candidates(xs, above, last_close, below, 21, <<>>), last_close)
    IN IF f.raised THEN <<>> ELSE f.levels

\* the two sides evaluated each on its own levels: LONG on the supports,
\* and SHORT, when LONG gives no signal, on the resistances
SidesOnOwnLevels(required, pair, candles_1h, candles_4h, candles_1d) ==
    LET above == {j \in 1..Len(candles_4h) : VolumeAboveMean(VolumesOf(candles_4h), j)}
        last_close == candles_4h[Len(candles_4h)].c
        trend_4h == determine_trend(candles_4h)
        trend_1d == determine_trend(candles_1d)
        long_signal == analyze_long(required, pair, candles_1h, candles_4h, trend_4h, trend_1d,
                                    KeptLevels(Lows(candles_4h), above, last_close, TRUE))
        short_signal == analyze_short(required, pair, candles_1h, candles_4h, trend_4h, trend_1d,
                                      KeptLevels(Highs(candles_4h), above, last_close, FALSE))
    IN IF long_signal # None /\ long_signal[1].confidence >= MinConfidence THEN long_signal
       ELSE IF short_signal # None /\ short_signal[1].confidence >= MinConfidence
       THEN short_signal
       ELSE None

\* C32: the result of analyze_pair on series that pass the data check is
\* the result of the two sides evaluated independently: the LONG signal
\* found on the supports alone or else the SHORT signal found on the
\* resistances alone; candidates of one side that are all dropped as
\* farther than 10% from the price leave the other side's signal in place.
C32_SidesIndependent ==
    (/\ analysis.called
     /\ ~InsufficientData(analysis.candles_1h, analysis.candles_4h, analysis.candles_1d))
    => analysis.result = SidesOnOwnLevels(required_conditions, analysis.pair,
                                          analysis.candles_1h, analysis.candles_4h,
                                          analysis.candles_1d)

\* the test that makes candle i of a 4h series a candidate of
\* _find_key_levels (professional_analyzer.py:148, 163)
Contributes(xs, above, last_close, below, i) ==
    /\ BounceCount(xs, above, i) >= 2
    /\ IF below THEN xs[i] < last_close ELSE xs[i] > last_close

\* the candles other than i, among the 30 before and the 30 after i, whose
\* value is within 2% of candle i's and whose volume is above the mean of
\* the five before
OtherBounces(xs, above, i) ==
    {j \in (Max(1, i - 30)..Min(Len(xs), i + 30)) \ {i} :
        j \in above /\ 50 * Abs(xs[j] - xs[i]) <= xs[i]}

\* C33: in every analysis, an interior candle of the 4h series contributes
\* its low as a support candidate (its high as a resistance candidate) only
\* if at least two other candles of its window are within 2% of it on
\* above-average volume and the value is below (above) the last close.
C33_KeyLevelConfirmation ==
    (/\ analysis.called
     /\ ~InsufficientData(analysis.candles_1h, analysis.candles_4h, analysis.candles_1d))
    => LET candles == analysis.candles_4h
           above == {j \in 1..Len(candles) : VolumeAboveMean(VolumesOf(candles), j)}
           last_close == candles[Len(candles)].c
       IN \A i \in 21..(Len(candles) - 10) :
             /\ Contributes(Lows(candles), above, last_close, TRUE, i)
                   => /\ Cardinality(OtherBounces(Lows(candles), above, i)) >= 2
                      /\ Lows(candles)[i] < last_close
             /\ Contributes(Highs(candles), above, last_close, FALSE, i)
                   => /\ Cardinality(OtherBounces(Highs(candles), above, i)) >= 2
                      /\ Highs(candles)[i] > last_close

(***************************************************************************)
(* Dispatch bookkeeping                                                    *)
(***************************************************************************)
\* the deliveries of dispatch d that succeeded
Served(d) == {d.outcomes[k].user_id : k \in {j \in 1..Len(d.outcomes) : d.outcomes[j].ok}}

\* C34: a delivery that succeeds while its row of signals_sent is not
\* written leaves the dispatch running with the remaining subscribers, and
\* a dispatch that has ended with a subscriber served has set the symbol's
\* cooldown timestamp, so that no subscriber is served twice by dispatches
\* less than SIGNAL_COOLDOWN apart.
C34_LogFailureTolerated ==
    /\ [][\A p \in SchedPairs :
             (/\ pc = "send" /\ users # <<>> /\ Head(todo) = p
              /\ Len(dispatchLog'[p]) = Len(dispatchLog[p])
              /\ Served(dispatchLog'[p][Len(dispatchLog[p])])
                    # Served(dispatchLog[p][Len(dispatchLog[p])])
              /\ signals_sent' = signals_sent)
             => (pc' = "send" /\ todo' = todo /\ users' = Tail(users))]_vars
    /\ [](\A p \in SchedPairs : \A i \in 1..Len(dispatchLog[p]) :
             (Served(dispatchLog[p][i]) # {} /\ ~Running(p, i))
                => /\ dispatchLog[p][i].recorded
                   /\ \A j \in 1..Len(dispatchLog[p]) :
                         (i < j /\ dispatchLog[p][j].cycle - dispatchLog[p][i].cycle
                                      < SIGNAL_COOLDOWN)
                            => Served(dispatchLog[p][i]) \cap Served(dispatchLog[p][j]) = {})

(***************************************************************************)
(* Signals the analyzer emits                                              *)
(***************************************************************************)
\* the prices of signal sig are ordered as the side asks
PricesOrdered(sig) ==
    LET price == Rat(sig.current_price, 1)
        entry_low == sig.entry_zone[1]
        entry_high == sig.entry_zone[2]
    IN IF sig.side = "LONG"
       THEN /\ RatLess(sig.stop_loss, entry_low)
            /\ RatLess(entry_low, sig.level)
            /\ RatLess(sig.level, price)
            /\ ~RatLess(entry_high, price)
            /\ RatLess(price, sig.take_profit_1)
       ELSE /\ RatLess(sig.take_profit_1, price)
            /\ ~RatLess(price, entry_low)
            /\ RatLess(price, sig.level)
            /\ RatLess(sig.level, entry_high)
            /\ RatLess(entry_high, sig.stop_loss)

\* entry_min <= current_price <= entry_max, in floats
PriceInZone(sig) ==
    LET zone == entry_zone_binary64(sig.side, sig.level)
        price == FloatOf(Rat(sig.current_price, 1))
    IN ~FloatLess(price, zone[1]) /\ ~FloatLess(zone[2], price)

\* C35: in every signal analyze_pair returns the current price lies in the
\* entry zone and between the stop-loss and TP1: for LONG stop_loss <
\* entry_low < level < current_price <= entry_high and current_price < TP1,
\* for SHORT TP1 < current_price and entry_low <= current_price < level <
\* entry_high < stop_loss.
\* The strict parts are compared on the exact products, which differ by far
\* more than a rounding; the two ends of the zone are compared as the floats
\* the sources compute, where 100.0 * 1.015 is 101.49999999999999.
C35_PriceInsideZone ==
    /\ (analysis.called /\ analysis.result # None) =>
           PricesOrdered(analysis.result[1]) /\ PriceInZone(analysis.result[1])
    /\ (remembered.called /\ remembered.result # None) =>
           PricesOrdered(remembered.result[1]) /\ PriceInZone(remembered.result[1])

\* the side's signal passes the confidence filter of analyze_pair
Passes(sig) == sig # None /\ sig[1].confidence >= MinConfidence

\* C36: on the same candles the LONG side and the SHORT side never both
\* give a signal, so the signal analyze_pair returns by trying LONG first
\* is the signal it would return by trying SHORT first.
C36_SidesExclusive ==
    helper.op = "sides" =>
       /\ ~(Passes(helper.long) /\ Passes(helper.short))
       /\ (IF Passes(helper.long) THEN helper.long
           ELSE IF Passes(helper.short) THEN helper.short ELSE None)
          = (IF Passes(helper.short) THEN helper.short
             ELSE IF Passes(helper.long) THEN helper.long ELSE None)

\* the LONG side gives its signal on candles whose price has a support
\* under it and a resistance over it, both within 1.5%, and whose red and
\* green candles both come on falling volume
C36_Witness ==
    /\ helper.op = "sides" /\ helper.shape_1h = "both"
    /\ helper.supports = <<Rat(10000, 1)>> /\ helper.resistances = <<Rat(10250, 1)>>
    /\ Passes(helper.long) /\ helper.short = None

(***************************************************************************)
(* Steady state of the collector and the analyzer                          *)
(***************************************************************************)
\* the synthetic candles among the last five of a series
SyntheticOfLastFive(series) ==
    Cardinality({i \in 1..Len(series) : i > Len(series) - 5 /\ IsSynthetic(series[i])})

\* C37: when at least four of the last five candles of the 1h series are
\* synthetic, neither volume condition holds and analyze_pair returns
\* None; a 1h series that ends with four synthetic candles ends with four
\* synthetic candles ever after, so no signal follows for the symbol.
C37_SyntheticTailSilences ==
    /\ []((analysis.called /\ SyntheticOfLastFive(analysis.candles_1h) >= 4) =>
             /\ ~check_volume_decrease(analysis.candles_1h, TRUE)
             /\ ~check_volume_decrease(analysis.candles_1h, FALSE)
             /\ analysis.result = None)
    /\ [][\A p \in SchedPairs :
             TrailingSynthetic(CANDLES[<<p, "1h">>]) >= 4
                => TrailingSynthetic(CANDLES'[<<p, "1h">>]) >= 4]_vars

\* a symbol that gave a signal gives none once four synthetic candles were
\* appended to its 1h series
C37_Witness ==
    /\ analysis.called /\ analysis.result = None
    /\ TrailingSynthetic(analysis.candles_1h) = 4
    /\ remembered.called /\ remembered.pair = analysis.pair /\ remembered.result # None
    /\ \E k \in 0..3 : remembered.candles_1h \o SubSeq(analysis.candles_1h,
                                                      Len(remembered.candles_1h) + 1,
                                                      Len(analysis.candles_1h))
                        = analysis.candles_1h
                       /\ TrailingSynthetic(remembered.candles_1h) = k

\* the collector has left the backfill behind
InSteadyState == cpc \in {"steady", "prices"}

\* C38: a step taken in the steady state leaves every 4h and 1d series as
\* it was, and a cycle of the dispatch loop that visits a symbol whose 4h
\* or 1d series is below the analysis minimum skips the symbol: no send is
\* opened, the cycle goes on with the next symbol.
C38_LongSeriesFrozen ==
    /\ [][InSteadyState =>
             \A p \in CollectPairs : \A tf \in {"4h", "1d"} :
                CANDLES'[<<p, tf>>] = CANDLES[<<p, tf>>]]_vars
    /\ [][\A p \in SchedPairs :
             (/\ Visiting(p)
              /\ \/ Len(CANDLES[<<p, "4h">>]) < MinCandles4h
                 \/ Len(CANDLES[<<p, "1d">>]) < MinCandles1d)
             => (pc' = "pairs" /\ todo' = Tail(todo) /\ dispatchLog' = dispatchLog)]_vars

\* in the steady state, after a cycle of the collector has appended to the
\* 1h series of ETHUSDT, a pair the backfill did not cover, the dispatch
\* loop has passed ETHUSDT by and BTCUSDT, whose 1d request failed, is next
C38_Witness ==
    /\ InSteadyState
    /\ collected["ETHUSDT"] # <<>> /\ CANDLES[<<"ETHUSDT", "1h">>] # <<>>
    /\ CANDLES[<<"ETHUSDT", "4h">>] = <<>>
    /\ Len(CANDLES[<<"BTCUSDT", "1h">>]) >= SchedMin1h
    /\ Len(CANDLES[<<"BTCUSDT", "4h">>]) >= MinCandles4h
    /\ CANDLES[<<"BTCUSDT", "1d">>] = <<>>
    /\ pc = "pairs" /\ todo = <<"BTCUSDT">>
    /\ dispatchLog["ETHUSDT"] = <<>>

(***************************************************************************)
(* Trend classification                                                    *)
(***************************************************************************)
\* C39: the result of analyze_pair is the result its body gives with any
\* of bullish, bearish and neutral in place of the values _determine_trend
\* returned for the 4h and the 1d series.
C39_TrendIgnored ==
    (/\ analysis.called
     /\ ~InsufficientData(analysis.candles_1h, analysis.candles_4h, analysis.candles_1d))
    => \A trend_4h \in Trends, trend_1d \in Trends :
          analysis.result = AnalyzeWithTrends(required_conditions, analysis.pair,
                                              analysis.candles_1h, analysis.candles_4h,
                                              analysis.candles_1d, trend_4h, trend_1d)

\* a LONG signal on a 4h series that is not classified bullish
C39_Witness ==
    /\ analysis.called /\ analysis.result # None
    /\ analysis.result[1].side = "LONG"
    /\ determine_trend(analysis.candles_4h) = "neutral"

(***************************************************************************)
(* Claim on the connection pool                                            *)
(***************************************************************************)
\* the tasks inside a database function with a connection in hand
Holders == {t \in DbTasks : dbops[t].stage = "holding"}
Waiters == {t \in DbTasks : dbops[t].stage = "waiting"}
\* the connections in the queue and in the hands of the holders
Idle == {available[i] : i \in 1..Len(available)}
InUse == {dbops[t].conn : t \in Holders}

\* C40: once init has completed, under every interleaving of the collector,
\* the dispatch loop and the command handlers, the idle connections plus the
\* connections held by running operations are exactly the pool_size
\* connections of the pool, none of them twice; a task outside the holders
\* has no connection; and whenever a task is suspended in acquire, a
\* connection is idle or a running operation holds one it will release.
C40_PoolConservation ==
    initialized =>
        /\ Len(available) + Cardinality(Holders) = pool_size
        /\ Cardinality(Idle) = Len(available)
        /\ Cardinality(InUse) = Cardinality(Holders)
        /\ Idle \cap InUse = {}
        /\ Idle \cup InUse = 1..pool_size
        /\ \A t \in DbTasks \ Holders : dbops[t].conn = NoConn
        /\ Waiters # {} => (available # <<>> \/ Holders # {})

\* every connection is held, a further task is suspended in acquire, and the
\* operation that finished last had raised
C40_Witness ==
    /\ initialized
    /\ available = <<>>
    /\ Cardinality(Holders) = pool_size
    /\ Waiters # {}
    /\ dbLast = "raised"

====
